---------------------------- MODULE Spec2Model ----------------------------
(***************************************************************************)
(* Model of the SAJ portal scraper add-on: the device poller               *)
(* (web_scraper._fetch_data_sync), the session handling around it          *)
(* (web_scraper.validate_connection, run.run_cycle) and the adaptive       *)
(* scheduler (the __main__ loop of run.py).                                *)
(*                                                                         *)
(* Texts are sequences of one-character strings.  Time is counted in       *)
(* whole seconds.  time.monotonic() has an arbitrary origin: the model     *)
(* puts the origin at the current instant, so a stored monotonic           *)
(* timestamp is 0 when it was taken "now" and -k when it was taken k       *)
(* seconds ago.                                                            *)
(***************************************************************************)
EXTENDS Integers, Sequences, FiniteSets, TLC

\* Python's None where a text is expected: a value no text equals.
NoText == <<"None">>

(***************************************************************************)
(* Texts                                                                   *)
(***************************************************************************)
Digits == {"0", "1", "2", "3", "4", "5", "6", "7", "8", "9"}

DigitVal(c) ==
  CASE c = "0" -> 0 [] c = "1" -> 1 [] c = "2" -> 2 [] c = "3" -> 3
    [] c = "4" -> 4 [] c = "5" -> 5 [] c = "6" -> 6 [] c = "7" -> 7
    [] c = "8" -> 8 [] c = "9" -> 9

DigitChar(n) ==
  CASE n = 0 -> "0" [] n = 1 -> "1" [] n = 2 -> "2" [] n = 3 -> "3"
    [] n = 4 -> "4" [] n = 5 -> "5" [] n = 6 -> "6" [] n = 7 -> "7"
    [] n = 8 -> "8" [] n = 9 -> "9"

\* Code point order of the characters the model uses (str comparison).
Ord(c) ==
  CASE c = " " -> 32 [] c = "-" -> 45 [] c \in Digits -> 48 + DigitVal(c)
    [] c = ":" -> 58 [] c = "T" -> 84 [] c = "Z" -> 90

IsDigitAt(s, i) == i >= 1 /\ i <= Len(s) /\ s[i] \in Digits

IsCharAt(s, i, c) == i >= 1 /\ i <= Len(s) /\ s[i] = c

\* Python's  a < b  on two str values.
RECURSIVE StrLessFrom(_, _, _)
StrLessFrom(a, b, i) ==
  IF i > Len(a) THEN i <= Len(b)
  ELSE IF i > Len(b) THEN FALSE
  ELSE IF a[i] # b[i] THEN Ord(a[i]) < Ord(b[i])
  ELSE StrLessFrom(a, b, i + 1)

StrLess(a, b) == StrLessFrom(a, b, 1)

\* Python's  'Z' in s .
ContainsZ(s) == \E i \in 1..Len(s) : s[i] = "Z"

Pad2(n) == <<DigitChar(n \div 10), DigitChar(n % 10)>>

Pad4(n) ==
  <<DigitChar(n \div 1000), DigitChar((n \div 100) % 10),
    DigitChar((n \div 10) % 10), DigitChar(n % 10)>>

(***************************************************************************)
(* datetime.strptime(text, "%Y-%m-%d %H:%M:%S")                            *)
(*                                                                         *)
(* The format compiles to the regular expression                           *)
(*   (\d\d\d\d)-(1[0-2]|0[1-9]|[1-9])-(3[0-1]|[1-2]\d|0[1-9]|[1-9]| [1-9]) *)
(*   \s+(2[0-3]|[0-1]\d|\d):([0-5]\d|\d):(6[0-1]|[0-5]\d|\d)               *)
(* which must match at the start of the text and consume all of it; the    *)
(* fields must then make a valid datetime.  A scanner returns the position *)
(* after the field and the field's value, or position 0 when the field     *)
(* does not match.                                                         *)
(***************************************************************************)
NoMatch == [pos |-> 0, val |-> 0]

\* strptime raising ValueError.
ValueError == [ok |-> FALSE]

\* One numeric field: the two-digit alternatives first (value in lo2..hi2),
\* then the one-digit alternative (value in lo1..9).
ScanField(s, i, lo2, hi2, lo1) ==
  LET two == IF IsDigitAt(s, i) /\ IsDigitAt(s, i + 1)
             THEN 10 * DigitVal(s[i]) + DigitVal(s[i + 1]) ELSE -1
      one == IF IsDigitAt(s, i) THEN DigitVal(s[i]) ELSE -1
  IN  IF two >= lo2 /\ two <= hi2 THEN [pos |-> i + 2, val |-> two]
      ELSE IF one >= lo1 THEN [pos |-> i + 1, val |-> one]
      ELSE NoMatch

ScanYear(s, i) ==
  IF \A k \in 0..3 : IsDigitAt(s, i + k)
  THEN [pos |-> i + 4,
        val |-> 1000 * DigitVal(s[i]) + 100 * DigitVal(s[i + 1])
                + 10 * DigitVal(s[i + 2]) + DigitVal(s[i + 3])]
  ELSE NoMatch

\* %d also accepts a space followed by one digit 1..9.
ScanDay(s, i) ==
  IF IsCharAt(s, i, " ")
  THEN IF IsDigitAt(s, i + 1) /\ DigitVal(s[i + 1]) >= 1
       THEN [pos |-> i + 2, val |-> DigitVal(s[i + 1])] ELSE NoMatch
  ELSE ScanField(s, i, 1, 31, 1)

ScanLit(s, i, c) == IF i >= 1 /\ IsCharAt(s, i, c) THEN i + 1 ELSE 0

\* \s+ : one or more blanks.
RECURSIVE SkipBlanks(_, _)
SkipBlanks(s, i) == IF IsCharAt(s, i, " ") THEN SkipBlanks(s, i + 1) ELSE i

ScanBlanks(s, i) == IF i >= 1 /\ IsCharAt(s, i, " ") THEN SkipBlanks(s, i) ELSE 0

IsLeap(y) == (y % 4 = 0 /\ y % 100 # 0) \/ y % 400 = 0

DaysInMonth(y, m) ==
  IF m = 2 THEN (IF IsLeap(y) THEN 29 ELSE 28)
  ELSE IF m \in {4, 6, 9, 11} THEN 30 ELSE 31

\* The state of a match: the position reached (0: no match) and the values
\* of the fields matched so far.
MatchStart == [pos |-> 1, vals |-> <<>>]

Then(st, r) ==
  IF r.pos = 0 THEN [pos |-> 0, vals |-> <<>>]
  ELSE [pos |-> r.pos, vals |-> Append(st.vals, r.val)]

ThenField(s, st, lo2, hi2, lo1) == Then(st, ScanField(s, st.pos, lo2, hi2, lo1))

ThenDay(s, st) == Then(st, ScanDay(s, st.pos))

ThenLit(s, st, c) == [pos |-> ScanLit(s, st.pos, c), vals |-> st.vals]

ThenBlanks(s, st) == [pos |-> ScanBlanks(s, st.pos), vals |-> st.vals]

\* %Y-%m-%d
MatchDate(s) ==
  ThenDay(s, ThenLit(s, ThenField(s, ThenLit(s, Then(MatchStart, ScanYear(s, 1)),
                                             "-"), 1, 12, 1), "-"))

\* \s+%H:%M:%S
MatchTime(s, st) ==
  ThenField(s, ThenLit(s, ThenField(s, ThenLit(s,
      ThenField(s, ThenBlanks(s, st), 0, 23, 0), ":"), 0, 59, 0), ":"), 0, 61, 0)

\* The datetime of a match f of the text s, or ValueError.
MatchedDatetime(s, f) ==
  IF f.pos = 0 THEN ValueError                           \* does not match format
  ELSE IF f.pos # Len(s) + 1 THEN ValueError             \* unconverted data remains
  ELSE IF f.vals[1] < 1 THEN ValueError                  \* year 0 is out of range
  ELSE IF f.vals[3] > DaysInMonth(f.vals[1], f.vals[2]) THEN ValueError
  ELSE IF f.vals[6] > 59 THEN ValueError                 \* second must be in 0..59
  ELSE [ok |-> TRUE, year |-> f.vals[1], month |-> f.vals[2], day |-> f.vals[3],
        hour |-> f.vals[4], minute |-> f.vals[5], second |-> f.vals[6]]

\* The parsed naive datetime, or ValueError.
strptime(s) == MatchedDatetime(s, MatchTime(s, MatchDate(s)))

(***************************************************************************)
(* naive.replace(tzinfo=local_tz).astimezone(utc): the local zone is a     *)
(* fixed offset of whole hours east of UTC (|offset| < 24).                *)
(***************************************************************************)
PrevDay(dt) ==
  IF dt.day > 1 THEN [dt EXCEPT !.day = dt.day - 1]
  ELSE IF dt.month > 1
       THEN [dt EXCEPT !.month = dt.month - 1,
                       !.day = DaysInMonth(dt.year, dt.month - 1)]
       ELSE [dt EXCEPT !.year = dt.year - 1, !.month = 12, !.day = 31]

NextDay(dt) ==
  IF dt.day < DaysInMonth(dt.year, dt.month) THEN [dt EXCEPT !.day = dt.day + 1]
  ELSE IF dt.month < 12 THEN [dt EXCEPT !.month = dt.month + 1, !.day = 1]
       ELSE [dt EXCEPT !.year = dt.year + 1, !.month = 1, !.day = 1]

astimezone_utc(dt, offset) ==
  LET h == dt.hour - offset
  IN  IF h < 0 THEN [PrevDay(dt) EXCEPT !.hour = h + 24]
      ELSE IF h > 23 THEN [NextDay(dt) EXCEPT !.hour = h - 24]
      ELSE [dt EXCEPT !.hour = h]

\* dt.strftime("%Y-%m-%dT%H:%M:%SZ"), for years 1000..9999.
strftime_utc(dt) ==
  Pad4(dt.year) \o <<"-">> \o Pad2(dt.month) \o <<"-">> \o Pad2(dt.day)
    \o <<"T">> \o Pad2(dt.hour) \o <<":">> \o Pad2(dt.minute) \o <<":">>
    \o Pad2(dt.second) \o <<"Z">>

\* web_scraper.py 246-261: the processed Update_time of a raw cell text.
\* An empty or missing cell is kept as it is; a text that does not parse is
\* kept raw.
ProcessUpdateTime(raw, offset) ==
  IF raw = NoText \/ raw = <<>> THEN raw
  ELSE LET naive == strptime(raw)
       IN  IF ~naive.ok THEN raw
           ELSE strftime_utc(astimezone_utc(naive, offset))

\* web_scraper.py 302: the test a processed Update_time must pass to be kept.
IsUsableUpdateTime(t) == t # NoText /\ t # <<>> /\ ContainsZ(t)

\* A text of the exact form YYYY-MM-DDTHH:MM:SSZ naming a real instant.
IsUtcIso(t) ==
  /\ t # NoText
  /\ Len(t) = 20
  /\ \A i \in {1, 2, 3, 4, 6, 7, 9, 10, 12, 13, 15, 16, 18, 19} : t[i] \in Digits
  /\ t[5] = "-" /\ t[8] = "-" /\ t[11] = "T" /\ t[14] = ":" /\ t[17] = ":"
  /\ t[20] = "Z"
  /\ LET num(i) == 10 * DigitVal(t[i]) + DigitVal(t[i + 1])
         y == 100 * num(1) + num(3)
     IN  /\ y >= 1
         /\ num(6) \in 1..12
         /\ num(9) >= 1 /\ num(9) <= DaysInMonth(y, num(6))
         /\ num(12) <= 23 /\ num(15) <= 59 /\ num(18) <= 59


(***************************************************************************)
(* Configuration and bounds                                                *)
(***************************************************************************)
\* The configured devices, in the order of the "microinverters" option.
microinverter_map == <<"SN1", "SN2">>

NumDevices == Len(microinverter_map)

Serials == {microinverter_map[i] : i \in 1..NumDevices}

\* web_scraper.py 202: fetch attempts per device.
max_attempts == 2

\* web_scraper.py 393: navigation attempts of driver_get_with_retry.
get_max_attempts == 3

\* run.py 407, 409: the two polling intervals, in sleep increments.
normal_update_interval == 2

extended_update_interval == 3

\* The configured data inactivity threshold is 0 or MaxThreshold.
MaxThreshold == 1

\* A step that takes time takes 0..MaxStep sleep increments.
MaxStep == 1

\* A device page shows at most MaxRows table rows.
MaxRows == 2

Max2(a, b) == IF a > b THEN a ELSE b

Min2(a, b) == IF a < b THEN a ELSE b

\* Ages beyond these make no difference to any comparison of the program.
MaxAge == MaxThreshold + 1

MaxDuration == Max2(normal_update_interval, extended_update_interval)

\* Local time zones (hours east of UTC) the TZ variable may name.
TzOffsets == {-3, 0, 2}

(***************************************************************************)
(* Raw cell texts of the portal's table                                    *)
(***************************************************************************)
LocalText(y, m, d, H, M, S) ==
  Pad4(y) \o <<"-">> \o Pad2(m) \o <<"-">> \o Pad2(d) \o <<" ">>
    \o Pad2(H) \o <<":">> \o Pad2(M) \o <<":">> \o Pad2(S)

RawEarly == LocalText(2024, 5, 1, 10, 0, 0)

RawLate == LocalText(2024, 5, 1, 10, 5, 0)

RawYearEnd == LocalText(2024, 12, 31, 22, 30, 0)

RawDashes == <<"-", "-">>

RawBadDay == LocalText(2023, 2, 29, 8, 0, 0)

RawWithZone == RawEarly \o <<"Z">>

\* Texts that strptime accepts.
WellFormedTexts == {RawEarly, RawLate, RawYearEnd}

\* Every text the Update_time cell may hold (NoText: the cell is missing).
UpdateTimeTexts ==
  WellFormedTexts \cup {NoText, RawDashes, RawBadDay, RawWithZone}

\* A page is the sequence of its table rows; a row is its Update_time cell.
PagesOf(texts, n) == UNION {[1..k -> texts] : k \in 0..n}

\* Pages of a portal that works: one current row with a well-formed time.
HealthyPages == {<<RawEarly>>, <<RawLate>>}

\* Pages the scheduler model is run on.
CyclePages == HealthyPages \cup {<<>>, <<RawDashes>>}

\* Pages the poller model is run on: no row, or a current row with any text
\* followed by older rows with well-formed times.
PollPages ==
  {<<>>} \cup {<<t>> \o older : t \in UpdateTimeTexts,
                                older \in PagesOf(WellFormedTexts, MaxRows - 1)}


(***************************************************************************)
(* Peak power (utils.calculate_peak_power).  Powers are counted in         *)
(* thousandths of a watt; a date is a record of year, month and day; None  *)
(* is <<>> and a present value v is <<v>>.                                 *)
(***************************************************************************)
\* round(x, 2) of a power that is not negative: the nearest hundredth of a
\* watt (an exact tie goes to the even hundredth).
RoundHundredths(x) ==
  LET q == x \div 10
      r == x % 10
  IN  IF r < 5 THEN 10 * q
      ELSE IF r > 5 THEN 10 * (q + 1)
      ELSE IF q % 2 = 0 THEN 10 * q ELSE 10 * (q + 1)

\* utils.py 179: round(current_power, 2)
round2(x) == IF x >= 0 THEN RoundHundredths(x) ELSE 0 - RoundHundredths(0 - x)

\* A calculation that takes every day for a new one.
always_new_day(reset_date, current_date) == TRUE

\* A test that never finds a new day.
never_new_day(reset_date, current_date) == FALSE

\* utils.py 171: the test for the daily reset.
is_new_day(reset_date, current_date) ==
  reset_date = <<>> \/ reset_date[1] # current_date

\* A test that a reading equal to the peak passes.
reaches(current_power, peak) ==
  current_power # <<>> /\ current_power[1] >= peak

\* utils.py 178: the test for a new peak.
exceeds(current_power, peak) ==
  current_power # <<>> /\ current_power[1] > peak

\* A calculation that raises the peak before it resets it.
peak_raise_first(current_power, previous_peak, reset_date, current_date) ==
  LET raised == exceeds(current_power, previous_peak)
      reset  == is_new_day(reset_date, current_date)
  IN  [new_peak       |-> IF reset THEN 0
                          ELSE IF raised THEN round2(current_power[1])
                          ELSE previous_peak,
       new_reset_date |-> IF reset THEN <<current_date>> ELSE reset_date,
       state_changed  |-> reset \/ raised]

\* utils.py 162-184; current_date is datetime.now().date().
calculate_peak_power(current_power, previous_peak, reset_date, current_date) ==
  LET reset    == is_new_day(reset_date, current_date)
      day_peak == IF reset THEN 0 ELSE previous_peak
      raised   == exceeds(current_power, day_peak)
  IN  [new_peak       |-> IF raised THEN round2(current_power[1]) ELSE day_peak,
       new_reset_date |-> IF reset THEN <<current_date>> ELSE reset_date,
       state_changed  |-> reset \/ raised]

\* Plant powers (sums rounded to hundredths) the cycles may see.
PlantPowers == {0, 80000, 150000}

\* The plant power of a plant that produces steadily.
SteadyPowers == {80000}

\* Inputs of the peak calculation on its own: a negative power, powers with
\* a third decimal, and the plant powers; peaks of an earlier calculation.
CalcPowers == {-1500, 4, 1006, 100000} \cup PlantPowers

CalcPeaks == {0, 1010, 100000}

\* The calendar: the first date of the model and the dates after it.
FirstDate == [year |-> 2024, month |-> 12, day |-> 31]

RECURSIVE DateOn(_)
DateOn(k) == IF k = 1 THEN FirstDate ELSE NextDay(DateOn(k - 1))

\* The run sees at most MaxDays calendar dates.
MaxDays == 2

Dates == {DateOn(k) : k \in 1..MaxDays}

\* The date before the first one.
EarlierDate == PrevDay(FirstDate)

(***************************************************************************)
(* The persistence file (persistence.py).  A JSON value is a record of its *)
(* type t with its number n or its text s; "missing" is a key that the     *)
(* object does not have.  A file is absent, or holds text that is not      *)
(* JSON ("garbage"), a JSON value that is no object ("value", in top), or  *)
(* an object with the two keys peak_power_today and last_reset_date.       *)
(***************************************************************************)
JValue(t, n, s) == [t |-> t, n |-> n, s |-> s]

JMissing == JValue("missing", 0, <<>>)

JNull == JValue("null", 0, <<>>)

JNumber(n) == JValue("number", n, <<>>)

JString(s) == JValue("string", 0, s)

JArray == JValue("array", 0, <<>>)

File(kind, top, peak, date) ==
  [kind |-> kind, top |-> top, peak |-> peak, date |-> date]

FileAbsent == File("absent", JMissing, JMissing, JMissing)

FileGarbage == File("garbage", JMissing, JMissing, JMissing)

FileValue(v) == File("value", v, JMissing, JMissing)

FileObject(peak, date) == File("object", JMissing, peak, date)

\* A date text with the day first.
day_first_format(d) ==
  Pad2(d.day) \o <<"-">> \o Pad2(d.month) \o <<"-">> \o Pad4(d.year)

\* date.isoformat()
isoformat(d) ==
  Pad4(d.year) \o <<"-">> \o Pad2(d.month) \o <<"-">> \o Pad2(d.day)

\* date.fromisoformat(s) on a text: the date, or ValueError.
fromisoformat(s) ==
  IF /\ Len(s) = 10
     /\ \A i \in {1, 2, 3, 4, 6, 7, 9, 10} : s[i] \in Digits
     /\ s[5] = "-" /\ s[8] = "-"
  THEN LET num(i) == 10 * DigitVal(s[i]) + DigitVal(s[i + 1])
           y == 100 * num(1) + num(3)
       IN  IF /\ y >= 1
              /\ num(6) \in 1..12
              /\ num(9) >= 1 /\ num(9) <= DaysInMonth(y, num(6))
           THEN [ok |-> TRUE, date |-> [year |-> y, month |-> num(6), day |-> num(9)]]
           ELSE [ok |-> FALSE, date |-> FirstDate]
  ELSE [ok |-> FALSE, date |-> FirstDate]

\* The value of a text of digits, in thousandths.
RECURSIVE DigitsValue(_, _)
DigitsValue(s, i) ==
  IF i = 0 THEN 0 ELSE 10 * DigitsValue(s, i - 1) + DigitVal(s[i])

\* persistence.py 15: float() of the value of peak_power_today; the key's
\* default is 0.0.  A text is converted if it is a text of digits.
float_of_peak(v) ==
  CASE v.t = "missing" -> [err |-> "none", value |-> 0]
    [] v.t = "number"  -> [err |-> "none", value |-> v.n]
    [] v.t = "string"  ->
         IF v.s # <<>> /\ \A i \in 1..Len(v.s) : v.s[i] \in Digits
         THEN [err |-> "none", value |-> 1000 * DigitsValue(v.s, Len(v.s))]
         ELSE [err |-> "ValueError", value |-> 0]
    [] OTHER           -> [err |-> "TypeError", value |-> 0]

\* python truth of a JSON value
Truthy(v) ==
  CASE v.t = "missing" -> FALSE
    [] v.t = "null"    -> FALSE
    [] v.t = "number"  -> v.n # 0
    [] v.t = "string"  -> v.s # <<>>
    [] v.t = "array"   -> FALSE

\* persistence.py 16-17: the reset date of the value of last_reset_date.
date_of(v) ==
  IF ~Truthy(v) THEN [err |-> "none", date |-> <<>>]
  ELSE IF v.t # "string" THEN [err |-> "TypeError", date |-> <<>>]
  ELSE IF fromisoformat(v.s).ok
  THEN [err |-> "none", date |-> <<fromisoformat(v.s).date>>]
  ELSE [err |-> "ValueError", date |-> <<>>]

Loaded(raised, peak, date) == [raised |-> raised, peak |-> peak, date |-> date]

\* The errors that load_peak_power_state catches (persistence.py 20, 23).
LoadCaught ==
  {"FileNotFoundError", "JSONDecodeError", "ValueError", "TypeError"}

\* The exception that leaves the try block of load_peak_power_state
\* (persistence.py 13-19), "none" if it returns.
LoadError(file) ==
  CASE file.kind = "absent"  -> "FileNotFoundError"
    [] file.kind = "garbage" -> "JSONDecodeError"
    [] file.kind = "value"   -> "AttributeError"
    [] file.kind = "object"  ->
         IF float_of_peak(file.peak).err # "none" THEN float_of_peak(file.peak).err
         ELSE date_of(file.date).err

\* persistence.py 10-25: what load_peak_power_state returns, or the
\* exception it raises.
load_peak_power_state(file) ==
  LET e == LoadError(file)
  IN  IF e = "none"
      THEN Loaded("none", float_of_peak(file.peak).value, date_of(file.date).date)
      ELSE IF e \in LoadCaught THEN Loaded("none", 0, <<>>)
      ELSE Loaded(e, 0, <<>>)

\* A state_data without the reset date.
state_data_without_date(peak, reset_date) == FileObject(JNumber(peak), JNull)

\* persistence.py 29-32: the state_data that save_peak_power_state dumps.
state_data(peak, reset_date) ==
  FileObject(JNumber(peak),
             IF reset_date = <<>> THEN JNull ELSE JString(isoformat(reset_date[1])))

\* How a write of the file ends: "ok"; "unwritable" (open raises, the file
\* is as it was); "truncated" (the write raises after open has emptied the
\* file).
WriteResults == {"ok", "unwritable", "truncated"}

\* persistence.py 27-38: the file after save_peak_power_state.
save_peak_power_state(file, peak, reset_date, write) ==
  CASE write = "ok"         -> state_data(peak, reset_date)
    [] write = "unwritable" -> file
    [] write = "truncated"  -> FileGarbage

(***************************************************************************)
(* State                                                                   *)
(***************************************************************************)
VARIABLES
  \* run.py globals
  webdriver,                  \* "None", or the state of the held browser
                              \* context: "ok", "expired", "dead", "quit"
  mqtt_client,                \* "None" or "client"
  shutdown_requested,
  initial_setup_done,
  last_known_update_times,    \* dict: serial -> Update_time
  last_data_change_timestamp, \* <<>> (None) or <<t>>, t <= 0 relative to now
  using_extended_interval,
  \* configuration and environment
  data_inactivity_threshold,
  local_tz,
  \* mqtt_utils._DISCOVERED_ENTITIES, as the serials announced
  discovered,
  \* the main loop
  pc,
  duration,                   \* time.monotonic() - start_time while the
                              \* cycle runs, then the value of run.py 426
                              \* until the sleep is computed from it
  current_interval_to_use,
  sleep_end_time,             \* t >= 0 relative to now
  \* run_cycle and _fetch_data_sync
  driver,                     \* the poller's driver: "webdriver" (the object
                              \* run.py holds), or the state of a context the
                              \* poller created itself
  dev,                        \* index of the device being fetched
  attempt,
  all_device_data,            \* dict: serial -> row_data
  data_changed_this_cycle,
  \* observation of what the program did
  fetch_outcome,              \* serial -> how the device's fetch ended
  fetch_attempts,             \* serial -> attempts made in this poll
  times_shown,                \* the UTC times of the table rows the last
                              \* attempt found
  cycle_result,               \* how the last run_cycle ended
  discovery,                  \* this cycle's call of publish_discovery:
                              \* "none", "raised" or "returned"
  discovery_retry_due,        \* publish_discovery has raised and has not
                              \* returned since
  extended_at_start,          \* using_extended_interval as the cycle began
  published,                  \* serials whose state this cycle published
  offline,                    \* cleanup's publish of the offline payload:
                              \* "none", "published" or "failed"
  session_quit,               \* cleanup's webdriver.quit(): "none", "quit"
                              \* or "raised"
  \* run.py globals of the peak power
  current_peak_power,
  last_reset_date,            \* <<>> (None) or <<date>>
  \* the calendar date and the persistence file
  today,
  store,
  \* run_cycle's peak calculation
  current_plant_power,        \* <<>> until run.py 310-315 has run
  peak_result,                \* <<>>, or the tuple returned at run.py 317
  save_result,                \* this cycle's save_peak_power_state: "none",
                              \* "saved" or "failed"
  peak_published,             \* <<>>, or the peak, the reset date and the
                              \* date of the calculation of the peak state
                              \* this cycle published
  \* observation of the peak power over the run
  write_failed,               \* a write of the file has failed
  observed,                   \* the plant powers calculated with today
  loaded,                     \* what load_peak_power_state returned
  \* observation of the session calls
  login_context,              \* <<>>, or what the call of validate_connection
                              \* that run_cycle has just made did
  nav,                        \* <<>>, or the frame of the last call of
                              \* driver_get_with_retry
  \* utils.is_inactive
  inactivity,                 \* <<>>, or the configuration, the time and the
                              \* value returned of a call of is_inactive
  \* _fetch_data_sync's processing of a table row
  raw_row_data,               \* dict: column name -> <<>> (None) or <<text>>
  row_data                    \* dict: key -> <<>> (None) or <<text>>

vars ==
  <<webdriver, mqtt_client, shutdown_requested, initial_setup_done,
    last_known_update_times, last_data_change_timestamp,
    using_extended_interval, data_inactivity_threshold, local_tz,
    discovered, pc, duration, current_interval_to_use,
    sleep_end_time, driver, dev, attempt,
    all_device_data, data_changed_this_cycle, fetch_outcome, fetch_attempts,
    times_shown, cycle_result, discovery, discovery_retry_due,
    extended_at_start, published, offline, session_quit,
    current_peak_power, last_reset_date, today, store, current_plant_power,
    peak_result, save_result, peak_published, write_failed, observed, loaded,
    login_context, nav, inactivity, raw_row_data, row_data>>

row_locals == <<raw_row_data, row_data>>

globals ==
  <<webdriver, mqtt_client, shutdown_requested, initial_setup_done,
    last_known_update_times, last_data_change_timestamp,
    using_extended_interval, discovered>>

config == <<data_inactivity_threshold, local_tz>>

loop_locals == <<duration, current_interval_to_use, sleep_end_time>>

fetch_locals ==
  <<driver, dev, attempt, all_device_data, fetch_outcome, fetch_attempts,
    times_shown>>

mqtt_observed == <<discovery, discovery_retry_due, published>>

cycle_observed == <<mqtt_observed, cycle_result, extended_at_start>>

shutdown_observed == <<offline, session_quit>>

session_calls == <<login_context, nav>>

peak_globals == <<current_peak_power, last_reset_date>>

peak_env == <<today, store>>

peak_cycle == <<current_plant_power, peak_result, save_result, peak_published>>

peak_history == <<write_failed, observed, loaded>>

peak_vars == <<peak_globals, peak_env, peak_cycle, peak_history>>

EmptyDict == <<>>

\* d[k] = v on a dict.
DictSet(d, k, v) == [x \in DOMAIN d \cup {k} |-> IF x = k THEN v ELSE d[x]]

NoOutcomes == [sn \in Serials |-> "pending"]

NoAttempts == [sn \in Serials |-> 0]

(***************************************************************************)
(* What the browser reports                                                *)
(***************************************************************************)
NoError == [cls |-> "none", conn_msg |-> FALSE]

\* An exception: its class, and whether its text holds one of "Failed to
\* establish a new connection", "Connection refused",
\* "browsingContext.currentWindowGlobal is null".
Exception(cls, conn_msg) == [cls |-> cls, conn_msg |-> conn_msg]

\* What WebDriverWait.until may raise.
WaitErrors ==
  {Exception("TimeoutException", FALSE), Exception("WebDriverException", TRUE),
   Exception("WebDriverException", FALSE), Exception("MaxRetryError", FALSE),
   Exception("RuntimeError", FALSE)}

\* What the browser shows after a navigation: the outcome of the wait for a
\* table row, the current location, whether the login form is on the page,
\* and the table rows.
View(error, loc, login_form, rows) ==
  [error |-> error, loc |-> loc, login_form |-> login_form, rows |-> rows]

DataView(rows) == View(NoError, "data", FALSE, rows)

\* No page was loaded.
NoView == View(NoError, "other", FALSE, <<>>)

\* The pages of an expired session: the login page (no table, the wait times
\* out), a page that still shows a table beside the login form, with or
\* without a row, or a page elsewhere in the portal that shows a table.
ExpiredViews ==
  {View(Exception("TimeoutException", FALSE), "login", TRUE, <<>>),
   View(NoError, "login", TRUE, <<>>), View(NoError, "data", TRUE, <<>>),
   View(NoError, "data", TRUE, <<RawEarly>>),
   View(NoError, "other", FALSE, <<RawEarly>>)}

FaultyViews ==
  {View(e, "other", FALSE, <<>>) : e \in WaitErrors}
    \cup {View(NoError, "other", FALSE, <<>>)} \cup ExpiredViews

\* Whether the portal (and the network to it) works.
PortalStates == {"healthy", "faulty"}

\* The views the environment can produce for a browser in state b.
ViewsFor(b, p, pages) ==
  IF b = "expired" THEN ExpiredViews
  ELSE IF p = "healthy" THEN {DataView(r) : r \in pages \cap HealthyPages}
  ELSE FaultyViews \cup {DataView(r) : r \in pages}

\* The outcomes of the driver.get calls of one driver_get_with_retry: TRUE
\* where the call returns, FALSE where it raises.  With a faulty portal the
\* first call returns or none does; a call that returns after others have
\* raised leaves the poll as the first one does.
GetsFor(b, p) ==
  IF b \in {"dead", "quit", "None"} THEN {[i \in 1..get_max_attempts |-> FALSE]}
  ELSE IF p = "healthy" THEN {[i \in 1..get_max_attempts |-> TRUE]}
  ELSE {[i \in 1..get_max_attempts |-> i >= k] : k \in {1, get_max_attempts + 1}}

(***************************************************************************)
(* web_scraper.py                                                          *)
(***************************************************************************)
\* driver_get_with_retry (387-415): the attempt that succeeds, 0 when all
\* get_max_attempts attempts raised.
RECURSIVE GetAttempt(_, _)
GetAttempt(gets, n) ==
  IF gets[n] THEN n
  ELSE IF n = get_max_attempts THEN 0
  ELSE GetAttempt(gets, n + 1)

driver_get_with_retry(gets) == GetAttempt(gets, 1) # 0

\* How a call of driver.get may end: it returns, it raises one of the
\* errors of the first except clause (401), or another exception (408).
NavOutcomes == {"ok", "driver_error", "other_error"}

\* 393-395: the frame of driver_get_with_retry as the loop begins; outcomes
\* are the ends of the driver.get calls it may make.
NavStart(outcomes) ==
  [outcomes |-> outcomes, attempt |-> 0, slept |-> 0, gets |-> 0,
   result |-> "running"]

\* A loop of one attempt less.
last_but_one(n) == n = get_max_attempts - 1

\* 403, 410: the test for the last attempt.
is_last_attempt(n) == n = get_max_attempts

\* 395-397: the loop takes its next attempt and sleeps.
NavSleep(f) == [f EXCEPT !.attempt = @ + 1, !.slept = @ + 1]

\* 398-415: driver.get is called; the function returns True if it returns,
\* False if it raises in the last attempt, and else sleeps and loops.
NavGet(f) ==
  LET called == [f EXCEPT !.gets = @ + 1]
  IN  IF f.outcomes[f.attempt] = "ok" THEN [called EXCEPT !.result = "true"]
      ELSE IF is_last_attempt(f.attempt) THEN [called EXCEPT !.result = "false"]
      ELSE IF f.attempt >= Len(f.outcomes) THEN [called EXCEPT !.result = "fell_through"]
      ELSE called

RECURSIVE NavRun(_)
NavRun(f) == IF f.result # "running" THEN f ELSE NavRun(NavGet(NavSleep(f)))

\* The frame that a call of driver_get_with_retry leaves, for the driver.get
\* calls of gets (tabulated).
NavDoneOf ==
  [gets \in [1..get_max_attempts -> BOOLEAN] |->
     [NavRun(NavStart([i \in 1..get_max_attempts |->
                         IF gets[i] THEN "ok" ELSE "driver_error"]))
        EXCEPT !.outcomes = <<>>]]

NavDone(gets) == NavDoneOf[gets]

\* is_session_expired (48-63)
is_session_expired(view) == view.loc = "login" \/ view.login_form

\* A test that takes every page for the data page.
_is_data_url_always(view) == TRUE

\* _is_data_url_in (65-78)
_is_data_url_in(view) == view.loc = "data" /\ ~is_session_expired(view)

\* 229: the rows of the page that are read.
RowsRead(rows) == <<rows[1]>>

\* 246-261, tabulated over the zones and the texts of the model.
ProcessedTexts ==
  [tz \in TzOffsets |-> [t \in UpdateTimeTexts |-> ProcessUpdateTime(t, tz)]]

\* 246-261: the texts that strptime parses.
ParsedTexts == {t \in UpdateTimeTexts \ {NoText} : strptime(t).ok}

\* 246-261: the UTC times of the rows whose text is converted.
ConvertedTimes(rows, tz) ==
  {ProcessedTexts[tz][rows[i]] : i \in {j \in 1..Len(rows) : rows[j] \in ParsedTexts}}

\* 245-299: the row_data of a row.
RowData(raw, tz) == [Update_time |-> ProcessedTexts[tz][raw]]

\* 300-306: device_data_rows, keyed by the processed Update_time.
device_data_rows(rows, tz) ==
  LET read == RowsRead(rows)
      kept == {i \in 1..Len(read) : IsUsableUpdateTime(RowData(read[i], tz).Update_time)}
  IN  {RowData(read[i], tz) : i \in kept}

\* 309: max(device_data_rows.keys())
latest_time(rowset) ==
  CHOOSE k \in {r.Update_time : r \in rowset} :
    \A r \in rowset : ~StrLess(k, r.Update_time)

\* 310: device_data_rows[latest_time]
latest_row(rowset) == CHOOSE r \in rowset : r.Update_time = latest_time(rowset)

\* 205-314: the body of the try block for one attempt.  raised is the
\* exception that leaves it (NoError: it ends in break), found is the
\* device_data_rows it built.
TryFetch(gets, view, tz) ==
  IF ~driver_get_with_retry(gets)
  THEN [raised |-> Exception("WebDriverException", FALSE), found |-> {}]
  ELSE IF view.error # NoError THEN [raised |-> view.error, found |-> {}]
  ELSE IF ~_is_data_url_in(view)
  THEN [raised |-> Exception("WebDriverException", TRUE), found |-> {}]
  ELSE IF view.rows = <<>> THEN [raised |-> NoError, found |-> {}]
  ELSE [raised |-> NoError, found |-> device_data_rows(view.rows, tz)]

\* 316: the except clause for the driver's exceptions.
IsFetchErr(e) ==
  e.cls \in {"TimeoutException", "NoSuchElementException", "WebDriverException",
             "MaxRetryError", "NewConnectionError"}

\* 317-325
is_timeout(e) == e.cls = "TimeoutException"

is_conn_refused(e) ==
  e.conn_msg \/ e.cls \in {"MaxRetryError", "NewConnectionError"}

IsConnectionClass(e) == IsFetchErr(e) /\ (is_timeout(e) \/ is_conn_refused(e))

\* 349: the test that guards the recovery branch.
RecoveryAllowed == max_attempts < 2

\* How one attempt ends, as recorded in fetch_outcome.
OutcomeOf(res) ==
  IF res.raised = NoError
  THEN (IF res.found # {} THEN "snapshot" ELSE "no_snapshot")
  ELSE IF IsConnectionClass(res.raised) THEN "conn_error"
  ELSE "other_error"


(***************************************************************************)
(* Time                                                                    *)
(***************************************************************************)
\* A monotonic timestamp d increments later (ages saturate at MaxAge).
Aged(ts, d) == IF ts = <<>> THEN ts ELSE <<Max2(-MaxAge, ts[1] - d)>>

\* The duration of the cycle d increments later (durations saturate at
\* MaxDuration).
Longer(dur, d) == Min2(MaxDuration, dur + d)

Elapse(d) ==
  /\ last_data_change_timestamp' = Aged(last_data_change_timestamp, d)
  /\ duration' = Longer(duration, d)

(***************************************************************************)
(* web_scraper.validate_connection (114-148)                               *)
(***************************************************************************)
\* How a call of validate_connection goes.  "ok": the browser starts and the
\* login succeeds; "init_failed": the browser does not start (133);
\* "config_failed": the browser starts and setting one of its timeouts raises
\* (134-135); "nav_failed": driver.get(login_url) raises (89);
\* "login_failed": the page loads and a later step of _perform_login fails
\* (90-98).
LoginResults(p) ==
  IF p = "healthy" THEN {"ok"}
  ELSE {"ok", "init_failed", "config_failed", "nav_failed", "login_failed"}

\* A validate_connection that leaves the browser it created when the login
\* fails.
validate_connection_leaking(login) ==
  CASE login = "ok" ->
         [raised |-> "none", context |-> "held", gets |-> 1, get_raised |-> FALSE]
    [] login = "init_failed" ->
         [raised |-> "RuntimeError", context |-> "none", gets |-> 0,
          get_raised |-> FALSE]
    [] login = "config_failed" ->
         [raised |-> "RuntimeError", context |-> "left", gets |-> 0,
          get_raised |-> FALSE]
    [] OTHER ->
         [raised |-> "ValueError", context |-> "left", gets |-> 1,
          get_raised |-> login = "nav_failed"]

\* validate_connection (114-148) with _perform_login (80-112): the error it
\* raises, what has become of the browser context it created ("none": not
\* created, "held": returned to the caller, "quit": driver.quit() was called
\* at 147, "left": created, not returned and not quit), the number of driver.get(login_url) calls that _perform_login
\* made (89) and whether the first of them raised.
validate_connection(login) ==
  CASE login = "ok" ->
         [raised |-> "none", context |-> "held", gets |-> 1, get_raised |-> FALSE]
    [] login = "init_failed" ->
         [raised |-> "RuntimeError", context |-> "none", gets |-> 0,
          get_raised |-> FALSE]
    [] login = "config_failed" ->
         [raised |-> "RuntimeError", context |-> "left", gets |-> 0,
          get_raised |-> FALSE]
    [] OTHER ->
         [raised |-> "ValueError", context |-> "quit", gets |-> 1,
          get_raised |-> login = "nav_failed"]

(***************************************************************************)
(* The main loop of run.py and run_cycle                                   *)
(***************************************************************************)
\* No peak calculation has run in this cycle.
NoPeakCycle ==
  /\ current_plant_power = <<>>
  /\ peak_result = <<>>
  /\ save_result = "none"
  /\ peak_published = <<>>

\* run.py 394: the peak state after a start on the persistence file.
StartedOn(file) ==
  /\ store = file
  /\ loaded = load_peak_power_state(file)
  /\ current_peak_power = loaded.peak
  /\ last_reset_date = loaded.date
  /\ today = FirstDate
  /\ write_failed = FALSE
  /\ observed = {}
  /\ NoPeakCycle

\* No call of validate_connection has been made.
NoLogin == <<>>

\* driver_get_with_retry is not running.
NavIdle == <<>>

NoCalls ==
  /\ login_context = NoLogin
  /\ nav = NavIdle
  /\ inactivity = <<>>
  /\ raw_row_data = EmptyDict
  /\ row_data = EmptyDict

Init ==
  /\ webdriver = "None"
  /\ mqtt_client \in {"None", "client"}
  /\ shutdown_requested = FALSE
  /\ initial_setup_done = FALSE
  /\ last_known_update_times = EmptyDict
  /\ last_data_change_timestamp = <<>>
  /\ using_extended_interval = FALSE
  /\ data_inactivity_threshold \in {0, MaxThreshold}
  /\ local_tz = 0
  /\ discovered = {}
  /\ pc = "loop_top"
  /\ duration = 0
  /\ current_interval_to_use = normal_update_interval
  /\ sleep_end_time = 0
  /\ driver = "webdriver"
  /\ dev = 1
  /\ attempt = 0
  /\ all_device_data = EmptyDict
  /\ data_changed_this_cycle = FALSE
  /\ fetch_outcome = NoOutcomes
  /\ fetch_attempts = NoAttempts
  /\ times_shown = {}
  /\ cycle_result = "pending"
  /\ discovery = "none"
  /\ discovery_retry_due = FALSE
  /\ extended_at_start = FALSE
  /\ published = {}
  /\ offline = "none"
  /\ session_quit = "none"
  /\ NoCalls
  /\ StartedOn(FileAbsent)

\* A loop test that ends the loop at once.
loop_never(shutdown) == FALSE

\* A loop test that never ends the loop.
loop_forever(shutdown) == TRUE

\* run.py 413: the test of the main loop.
loop_goes_on(shutdown) == ~shutdown

\* run.py 413-416: the loop test and the start of an iteration.
LoopTop ==
  /\ pc = "loop_top"
  /\ IF loop_goes_on(shutdown_requested)
     THEN pc' = "run_cycle" /\ duration' = 0
     ELSE pc' = "cleanup" /\ UNCHANGED duration
  /\ UNCHANGED shutdown_observed
  /\ UNCHANGED <<inactivity, row_locals>>
  /\ UNCHANGED session_calls
  /\ UNCHANGED peak_vars
  /\ UNCHANGED <<globals, config, current_interval_to_use,
                 sleep_end_time, fetch_locals,
                 data_changed_this_cycle, cycle_observed>>

(***************************************************************************)
(* The inactivity window (utils.is_inactive).  A time of day is counted in *)
(* seconds since midnight.                                                 *)
(***************************************************************************)
\* datetime.strptime(text, "%H:%M").time(): the format compiles to
\* (2[0-3]|[0-1]\d|\d):([0-5]\d|\d), which must consume all of the text.
strptime_hm(s) ==
  LET f == ThenField(s, ThenLit(s, ThenField(s, MatchStart, 0, 23, 0), ":"),
                     0, 59, 0)
  IN  IF f.pos = 0 \/ f.pos # Len(s) + 1 THEN [ok |-> FALSE, time |-> 0]
      ELSE [ok |-> TRUE, time |-> 3600 * f.vals[1] + 60 * f.vals[2]]

\* A test that finds no window overnight.
never_overnight(start_time, end_time) == FALSE

\* utils.py 41: the window runs over midnight
overnight(start_time, end_time) == start_time > end_time

\* utils.py 17-59, with the configuration cfg at the local time now.
is_inactive(cfg, now) ==
  IF ~cfg.enabled THEN FALSE
  ELSE LET start_time == strptime_hm(cfg.start)
           end_time   == strptime_hm(cfg.end)
       IN  IF ~start_time.ok \/ ~end_time.ok THEN FALSE
           ELSE IF overnight(start_time.time, end_time.time)
                THEN now >= start_time.time \/ now < end_time.time
                ELSE start_time.time <= now /\ now < end_time.time

TimeOfDay(H, M, S) == 3600 * H + 60 * M + S

\* Configured times: "21:00", "05:30", "10:00", "14:00", "5:30", "24:00",
\* "21h" and the empty text, with the time of day each names (-1: none).
TimeTexts ==
  << [text |-> <<"2", "1", ":", "0", "0">>, time |-> TimeOfDay(21, 0, 0)],
     [text |-> <<"0", "5", ":", "3", "0">>, time |-> TimeOfDay(5, 30, 0)],
     [text |-> <<"1", "0", ":", "0", "0">>, time |-> TimeOfDay(10, 0, 0)],
     [text |-> <<"1", "4", ":", "0", "0">>, time |-> TimeOfDay(14, 0, 0)],
     [text |-> <<"5", ":", "3", "0">>, time |-> TimeOfDay(5, 30, 0)],
     [text |-> <<"2", "4", ":", "0", "0">>, time |-> -1],
     [text |-> <<"2", "1", "h">>, time |-> -1],
     [text |-> <<>>, time |-> -1] >>

\* The configuration of the running program, the window 21:00 to 05:30,
\* and the local times at which its cycles begin.
CONFIG == [enabled |-> TRUE, start |-> TimeTexts[1].text, end |-> TimeTexts[2].text]

GateTimes == {TimeOfDay(2, 0, 0), TimeOfDay(6, 0, 0)}

\* utils.is_inactive(CONFIG) at each of these times.
is_inactive_at == [now \in GateTimes |-> is_inactive(CONFIG, now)]

\* A gate that does not wait for discovery.
gate_always(setup_done, inactive) == inactive

\* run.py 244: initial_setup_done and utils.is_inactive(CONFIG)
gate_closed(setup_done, inactive) == setup_done /\ inactive

\* run.py 243-264: the inactivity gate, then the session is ensured.  now is
\* the local time, login how validate_connection ends if it is called;
\* portal tells whether the portal can be reached.  is_inactive is called
\* only once initial_setup_done is true.
CycleStart(portal) ==
  /\ pc = "run_cycle"
  /\ \E now \in GateTimes, login \in LoginResults(portal) :
       /\ UNCHANGED row_locals
       /\ inactivity' =
            <<[config |-> CONFIG, now |-> now,
               returned |-> IF initial_setup_done
                            THEN <<is_inactive_at[now]>> ELSE <<>>]>>
       /\ IF gate_closed(initial_setup_done, is_inactive_at[now])
          THEN /\ using_extended_interval' = FALSE
               /\ cycle_result' = "skipped"
               /\ pc' = "decide"
               /\ UNCHANGED <<webdriver, login_context>>
          ELSE /\ UNCHANGED using_extended_interval
               /\ IF webdriver = "None"
                  THEN \* 253-264
                       LET v == validate_connection(login)
                       IN  /\ login_context' = <<v>>
                           /\ IF v.raised = "none"
                              THEN webdriver' = "ok" /\ cycle_result' = "pending"
                                   /\ pc' = "fetch"
                              ELSE webdriver' = "None"
                                   /\ cycle_result' = "login_failed"
                                   /\ pc' = "decide"
                  ELSE /\ UNCHANGED <<webdriver, login_context>>
                       /\ cycle_result' = "pending" /\ pc' = "fetch"
  /\ driver' = "webdriver"
  /\ dev' = 1
  /\ attempt' = 0
  /\ all_device_data' = EmptyDict
  /\ fetch_outcome' = NoOutcomes
  /\ fetch_attempts' = NoAttempts
  /\ times_shown' = {}
  /\ data_changed_this_cycle' = FALSE
  /\ discovery' = "none"
  /\ extended_at_start' = using_extended_interval
  /\ published' = {}
  /\ UNCHANGED nav
  /\ UNCHANGED shutdown_observed
  /\ UNCHANGED peak_vars
  /\ UNCHANGED <<mqtt_client, shutdown_requested, initial_setup_done,
                 last_known_update_times, last_data_change_timestamp,
                 discovered, config, loop_locals, discovery_retry_due>>

\* The state of the browser context behind the poller's driver.
DriverState == IF driver = "webdriver" THEN webdriver ELSE driver

\* A break that leaves the poll at the same device.
StayAtDevice ==
  /\ dev' = dev
  /\ attempt' = 0
  /\ pc' = "fetch"

\* A poll that gives up the remaining devices when a device fails.
NextDeviceUnlessFailed ==
  /\ dev' = IF fetch_outcome'[microinverter_map[dev]] = "snapshot"
            THEN dev + 1 ELSE NumDevices + 1
  /\ attempt' = 0
  /\ pc' = IF dev' > NumDevices THEN "detect" ELSE "fetch"

\* web_scraper.py 197, 314, 368, 372: the break that ends the attempts at a
\* device; the for loop goes on to the next device, and returns after the
\* last.
NextDevice ==
  /\ dev' = dev + 1
  /\ attempt' = 0
  /\ pc' = IF dev = NumDevices THEN "detect" ELSE "fetch"

\* web_scraper.py 197-372: one attempt at the device microinverter_map[dev].
\* gets and view are what the browser does, d the time the attempt takes and
\* login how validate_connection ends where the recovery branch calls it;
\* portal tells whether the portal can be reached, pages what it may show.
FetchAttempt(portal, pages) ==
  /\ pc = "fetch"
  /\ attempt < max_attempts
  /\ \E d \in 0..MaxStep : Elapse(d)
  /\ \E gets \in GetsFor(DriverState, portal) :
     /\ nav' = <<NavDone(gets)>>
     /\ \E view \in IF driver_get_with_retry(gets)
                     THEN ViewsFor(DriverState, portal, pages) ELSE {NoView} :
        \E res \in {TryFetch(gets, view, local_tz)} :
          LET sn  == microinverter_map[dev]
              n   == attempt + 1
          IN  /\ fetch_outcome' = [fetch_outcome EXCEPT ![sn] = OutcomeOf(res)]
              /\ times_shown' = IF res.raised = NoError
                                 THEN ConvertedTimes(view.rows, local_tz) ELSE {}
              /\ fetch_attempts' = [fetch_attempts EXCEPT ![sn] = n]
              /\ all_device_data' =
                   IF res.found # {}
                   THEN DictSet(all_device_data, sn, latest_row(res.found))
                   ELSE all_device_data
              /\ IF IsConnectionClass(res.raised) /\ RecoveryAllowed
                 THEN \* 350-361: quit the driver, log in again, retry
                      \E login \in LoginResults(portal) :
                      /\ login_context' = <<validate_connection(login)>>
                      /\ IF login = "ok"
                         THEN /\ driver' = "ok"
                              /\ webdriver' = IF driver = "webdriver" THEN "quit" ELSE webdriver
                              /\ IF n < max_attempts
                                 THEN attempt' = n /\ UNCHANGED <<dev, pc>>
                                 ELSE NextDevice
                              /\ UNCHANGED cycle_result
                         ELSE \* the error of validate_connection leaves the
                              \* poller; run.py 370-383 drops the session
                              /\ webdriver' = "None"
                              /\ cycle_result' = "error"
                              /\ pc' = "decide"
                              /\ UNCHANGED <<driver, dev, attempt>>
                 ELSE \* break
                      /\ NextDevice
                      /\ UNCHANGED <<webdriver, driver, cycle_result>>
                      /\ login_context' = NoLogin
  /\ UNCHANGED shutdown_observed
  /\ UNCHANGED row_locals
  /\ inactivity' = <<>>
  /\ UNCHANGED peak_vars
  /\ UNCHANGED <<mqtt_client, shutdown_requested, initial_setup_done,
                 last_known_update_times, using_extended_interval, discovered,
                 config, current_interval_to_use, sleep_end_time,
                 data_changed_this_cycle, mqtt_observed, extended_at_start>>


\* A test that finds every poll result empty.
HasDataNever(device_data) == FALSE

\* A test that lets an empty poll result pass.
HasDataAlways(device_data) == TRUE

\* run.py 271: the poll returned data.
HasData(device_data) == device_data # EmptyDict

\* A comparison that takes every usable Update_time for new.
EveryUsableSerial(device_data, known) ==
  {sn \in DOMAIN device_data : IsUsableUpdateTime(device_data[sn].Update_time)}

\* run.py 279-290: the devices of the poll result whose Update_time is new.
ChangedSerials(device_data, known) ==
  {sn \in DOMAIN device_data :
     /\ IsUsableUpdateTime(device_data[sn].Update_time)
     /\ \/ sn \notin DOMAIN known
        \/ known[sn] # device_data[sn].Update_time}

\* run.py 269-301: the poll has returned; no data ends the cycle, else the
\* Update_times are compared with the last known ones.
ChangeDetection ==
  /\ pc = "detect"
  /\ IF ~HasData(all_device_data)
     THEN /\ cycle_result' = "no_data"
          /\ pc' = "decide"
          /\ UNCHANGED <<last_known_update_times, last_data_change_timestamp,
                         using_extended_interval, data_changed_this_cycle>>
     ELSE LET changed == ChangedSerials(all_device_data, last_known_update_times)
          IN  /\ pc' = "publish"
              /\ UNCHANGED cycle_result
              /\ IF initial_setup_done
                 THEN /\ last_known_update_times' =
                           [sn \in DOMAIN last_known_update_times \cup changed |->
                              IF sn \in changed THEN all_device_data[sn].Update_time
                              ELSE last_known_update_times[sn]]
                      /\ data_changed_this_cycle' = (changed # {})
                      /\ IF changed # {}
                         THEN /\ last_data_change_timestamp' = <<0>>
                              /\ using_extended_interval' = FALSE
                         ELSE UNCHANGED <<last_data_change_timestamp,
                                          using_extended_interval>>
                 ELSE UNCHANGED <<last_known_update_times, last_data_change_timestamp,
                                  using_extended_interval, data_changed_this_cycle>>
  /\ times_shown' = {}
  /\ nav' = NavIdle
  /\ UNCHANGED login_context
  /\ UNCHANGED shutdown_observed
  /\ UNCHANGED <<inactivity, row_locals>>
  /\ UNCHANGED peak_vars
  /\ UNCHANGED <<webdriver, mqtt_client, shutdown_requested, initial_setup_done,
                 discovered, config, loop_locals, driver, dev, attempt,
                 all_device_data, fetch_outcome, fetch_attempts, mqtt_observed,
                 extended_at_start>>

\* A discovery that stores no Update_time.
NoInitialTimes == EmptyDict

\* run.py 342-349: the scheduler state set when discovery has succeeded.
InitialTimes ==
  [sn \in {x \in DOMAIN all_device_data :
             IsUsableUpdateTime(all_device_data[x].Update_time)} |->
     all_device_data[sn].Update_time]

\* What a call of publish_discovery that raises may have announced before.
PartlyAnnounced == SUBSET (DOMAIN all_device_data)

\* mqtt_utils.py 302-305: the payload of the peak power topic.
peak_payload(peak_power, reset_date) ==
  [value |-> peak_power,
   last_reset_date |-> IF reset_date = <<>> THEN JNull
                       ELSE JString(isoformat(reset_date[1]))]

\* A cycle that compares with the peak of the persistence file.
previous_peak_of_file(in_memory, file) == load_peak_power_state(file).peak

\* run.py 317-319: the previous peak that the cycle passes to
\* calculate_peak_power.
previous_peak(in_memory, file) == in_memory

\* A cycle that announces the devices whether or not it was done before.
discovery_always(setup_done) == TRUE

\* run.py 332: the test that guards publish_discovery.
discovery_due(setup_done) == ~setup_done

\* What a call may answer where it is made (FALSE where it is not made).
Asked(called) == IF called THEN BOOLEAN ELSE {FALSE}

\* run.py 303-367: aggregation, then discovery and state go to MQTT.  c1, c2
\* and c3 are what is_connected returns at run.py 329, mqtt_utils.py 106 and
\* mqtt_utils.py 272; raises tells whether publish_discovery raises past its
\* test at 106, connect whether connect_mqtt succeeds, d the time the step
\* takes.  power is the plant power that aggregate_plant_data returns (a sum
\* rounded to hundredths), write how the write of the persistence file ends
\* if save_peak_power_state is called.
Publish(powers, writes) ==
  /\ pc = "publish"
  \* 307-326: the peak power
  /\ \E power \in powers :
     \E r \in {calculate_peak_power(<<power>>,
                                   previous_peak(current_peak_power, store),
                                   last_reset_date, today)} :
           \E write \in IF r.state_changed THEN writes ELSE {"ok"} :
             /\ current_plant_power' = <<power>>
             /\ peak_result' = r
             /\ observed' = observed \cup {power}
             /\ IF r.state_changed
                THEN /\ current_peak_power' = r.new_peak
                     /\ last_reset_date' = r.new_reset_date
                     /\ store' = save_peak_power_state(store, r.new_peak,
                                                       r.new_reset_date, write)
                     /\ save_result' = IF write = "ok" THEN "saved" ELSE "failed"
                     /\ write_failed' = (write_failed \/ write # "ok")
                ELSE /\ save_result' = "none"
                     /\ UNCHANGED <<current_peak_power, last_reset_date, store,
                                    write_failed>>
  \* 329-367: MQTT
  /\ \E c1 \in Asked(mqtt_client # "None"), d \in 0..MaxStep :
     \E c2 \in Asked(c1 /\ discovery_due(initial_setup_done)),
        connect \in Asked(mqtt_client = "None") :
     \E raises \in Asked(c2) :
     \E c3 \in Asked(c1 /\ ~raises) :
       /\ duration' = Longer(duration, d)
       /\ IF mqtt_client # "None" /\ c1
          THEN /\ UNCHANGED mqtt_client
               /\ discovery' = IF ~discovery_due(initial_setup_done) THEN "none"
                               ELSE IF raises THEN "raised" ELSE "returned"
               /\ discovery_retry_due' =
                    (discovery_retry_due \/ (discovery_due(initial_setup_done) /\ raises))
               /\ IF discovery_due(initial_setup_done) /\ raises
                  THEN \* 350-353: the cycle is aborted
                       /\ \E part \in PartlyAnnounced :
                            discovered' = discovered \cup part
                       /\ cycle_result' = "discovery_failed"
                       /\ last_data_change_timestamp' = Aged(last_data_change_timestamp, d)
                       /\ UNCHANGED <<initial_setup_done, last_known_update_times,
                                      published>>
                  ELSE /\ IF discovery_due(initial_setup_done)
                          THEN /\ discovered' =
                                    discovered \cup (IF c2 THEN DOMAIN all_device_data ELSE {})
                               /\ initial_setup_done' = TRUE
                               /\ last_data_change_timestamp' = <<0>>
                               /\ last_known_update_times' =
                                    [sn \in DOMAIN last_known_update_times
                                              \cup DOMAIN InitialTimes |->
                                       IF sn \in DOMAIN InitialTimes THEN InitialTimes[sn]
                                       ELSE last_known_update_times[sn]]
                          ELSE /\ last_data_change_timestamp' =
                                    Aged(last_data_change_timestamp, d)
                               /\ UNCHANGED <<discovered, initial_setup_done,
                                              last_known_update_times>>
                       \* 355-361: publish_state
                       /\ IF c3
                          THEN /\ published' = DOMAIN all_device_data
                               /\ cycle_result' = "published"
                          ELSE /\ UNCHANGED published
                               /\ cycle_result' = "state_skipped"
          ELSE \* 363-367
               /\ cycle_result' = "mqtt_down"
               /\ mqtt_client' = IF mqtt_client = "None" /\ connect THEN "client"
                                 ELSE mqtt_client
               /\ discovery' = "none"
               /\ UNCHANGED discovery_retry_due
               /\ last_data_change_timestamp' = Aged(last_data_change_timestamp, d)
               /\ UNCHANGED <<discovered, initial_setup_done,
                              last_known_update_times, published>>
  /\ pc' = "decide"
  \* 356: the peak state that publish_state is given
  /\ peak_published' = IF cycle_result' = "published"
                       THEN <<[payload |-> peak_payload(current_peak_power',
                                                        last_reset_date'),
                               calc_date |-> today]>>
                       ELSE <<>>
  /\ UNCHANGED <<today, loaded>>
  \* the poll's result is not used after this step
  /\ all_device_data' = EmptyDict
  /\ fetch_outcome' = NoOutcomes
  /\ fetch_attempts' = NoAttempts
  /\ UNCHANGED shutdown_observed
  /\ UNCHANGED <<inactivity, row_locals>>
  /\ UNCHANGED session_calls
  /\ UNCHANGED <<webdriver, shutdown_requested, using_extended_interval, config,
                 current_interval_to_use, sleep_end_time, driver, dev, attempt,
                 times_shown, data_changed_this_cycle, extended_at_start>>

\* A test that holds whatever time has passed.
inactive_always(time_since_last_change, threshold) == TRUE

\* The test with >= for > .
inactive_long_enough(time_since_last_change, threshold) ==
  time_since_last_change >= threshold

\* The test with its operands exchanged.
inactive_too_short(time_since_last_change, threshold) ==
  threshold > time_since_last_change

\* run.py 437: the test that switches to the extended interval.
inactive_too_long(time_since_last_change, threshold) ==
  time_since_last_change > threshold

\* A loop that sleeps the extended interval always.
interval_always_extended(setup_done, extended) == extended_update_interval

\* run.py 430-443: the interval of the sleep.
interval_to_use(setup_done, extended) ==
  IF setup_done /\ extended
  THEN extended_update_interval ELSE normal_update_interval

\* run.py 425-450: run_cycle has returned (its locals are gone); the interval
\* is chosen and the end of the sleep computed.
IntervalDecision ==
  /\ pc = "decide"
  /\ LET measured == initial_setup_done /\ ~using_extended_interval
                       /\ last_data_change_timestamp # <<>>
         since    == 0 - last_data_change_timestamp[1]
         extended == IF initial_setup_done
                     THEN using_extended_interval
                            \/ (measured /\ inactive_too_long(since, data_inactivity_threshold))
                     ELSE using_extended_interval
         interval == interval_to_use(initial_setup_done, extended)
     IN  /\ using_extended_interval' = extended
         /\ current_interval_to_use' = interval
         /\ sleep_end_time' = Max2(0, interval - duration)
  /\ duration' = 0
  /\ pc' = "sleep"
  /\ driver' = "webdriver"
  /\ dev' = 1
  /\ attempt' = 0
  /\ all_device_data' = EmptyDict
  /\ fetch_outcome' = NoOutcomes
  /\ fetch_attempts' = NoAttempts
  /\ times_shown' = {}
  /\ cycle_result' = "pending"
  /\ discovery' = "none"
  /\ discovery_retry_due' = (discovery_retry_due /\ ~initial_setup_done)
  /\ published' = {}
  /\ current_plant_power' = <<>>
  /\ peak_result' = <<>>
  /\ save_result' = "none"
  /\ peak_published' = <<>>
  /\ UNCHANGED <<peak_globals, peak_env, peak_history>>
  /\ UNCHANGED extended_at_start
  /\ nav' = NavIdle
  /\ login_context' = NoLogin
  /\ UNCHANGED shutdown_observed
  /\ UNCHANGED row_locals
  /\ inactivity' = <<>>
  /\ UNCHANGED <<webdriver, mqtt_client, shutdown_requested, initial_setup_done,
                 last_known_update_times, last_data_change_timestamp, discovered,
                 config, data_changed_this_cycle>>

\* A sleep test that does not read the shutdown flag.
sleep_out(remaining, shutdown) == remaining > 0

\* run.py 451: the test of the sleep loop.
sleep_goes_on(remaining, shutdown) == remaining > 0 /\ ~shutdown

\* run.py 451-452: one test of the sleep loop, and one second of sleep if
\* the test passes.
SleepTick ==
  /\ pc = "sleep"
  /\ IF sleep_goes_on(sleep_end_time, shutdown_requested)
     THEN /\ sleep_end_time' = sleep_end_time - 1
          /\ last_data_change_timestamp' = Aged(last_data_change_timestamp, 1)
          /\ UNCHANGED <<pc, extended_at_start>>
     ELSE /\ pc' = "loop_top"
          /\ extended_at_start' = FALSE
          /\ UNCHANGED <<sleep_end_time, last_data_change_timestamp>>
  /\ UNCHANGED shutdown_observed
  /\ UNCHANGED <<inactivity, row_locals>>
  /\ UNCHANGED session_calls
  /\ UNCHANGED peak_vars
  /\ UNCHANGED <<webdriver, mqtt_client, shutdown_requested, initial_setup_done,
                 last_known_update_times, using_extended_interval, discovered,
                 config, duration, current_interval_to_use,
                 fetch_locals, data_changed_this_cycle, cycle_result,
                 mqtt_observed>>

\* run.py 213-236, 459-463.  The publish of the offline payload (219) fails
\* where it raises or the client is not connected; webdriver.quit() (231)
\* may raise; both errors are logged only.
cleanup ==
  /\ pc = "cleanup"
  /\ offline' \in IF mqtt_client = "None" THEN {"none"}
                  ELSE {"published", "failed"}
  /\ session_quit' \in IF webdriver = "None" THEN {"none"}
                       ELSE {"quit", "raised"}
  /\ mqtt_client' = "None"
  /\ webdriver' = "None"
  /\ pc' = "stopped"
  /\ UNCHANGED peak_vars
  /\ UNCHANGED <<session_calls, inactivity, row_locals>>
  /\ UNCHANGED <<shutdown_requested, initial_setup_done, last_known_update_times,
                 last_data_change_timestamp, using_extended_interval, discovered,
                 config, loop_locals, fetch_locals,
                 data_changed_this_cycle, cycle_observed>>

\* run.py 158-164: SIGTERM or SIGINT arrives.  The flag is read at the loop
\* test and in the sleep loop only: a signal that arrives during a cycle has
\* the effect of one that arrives as the cycle ends.
handle_shutdown ==
  /\ pc \in {"loop_top", "sleep"}
  /\ ~shutdown_requested
  /\ shutdown_requested' = TRUE
  /\ UNCHANGED shutdown_observed
  /\ UNCHANGED <<inactivity, row_locals>>
  /\ UNCHANGED session_calls
  /\ UNCHANGED peak_vars
  /\ UNCHANGED <<webdriver, mqtt_client, initial_setup_done,
                 last_known_update_times, last_data_change_timestamp,
                 using_extended_interval, discovered, config,
                 pc, loop_locals, fetch_locals, data_changed_this_cycle,
                 cycle_observed>>

(***************************************************************************)
(* The environment                                                         *)
(***************************************************************************)
EnvUnchangedButPeak ==
  /\ UNCHANGED shutdown_observed
  /\ UNCHANGED <<inactivity, row_locals>>
  /\ UNCHANGED session_calls
  /\ UNCHANGED <<mqtt_client, shutdown_requested, initial_setup_done,
              last_known_update_times, last_data_change_timestamp,
              using_extended_interval, discovered, config, pc,
              loop_locals, fetch_locals, data_changed_this_cycle,
              cycle_observed>>

EnvUnchanged ==
  /\ UNCHANGED shutdown_observed
  /\ UNCHANGED <<inactivity, row_locals>>
  /\ UNCHANGED session_calls
  /\ UNCHANGED peak_vars
  /\ UNCHANGED <<mqtt_client, shutdown_requested, initial_setup_done,
              last_known_update_times, last_data_change_timestamp,
              using_extended_interval, discovered, config, pc,
              loop_locals, fetch_locals, data_changed_this_cycle,
              cycle_observed>>

\* The portal logs the session out.  The state of the browser is seen by
\* the poller only: what happens to it at another time has the effect of
\* the same happening as the poller turns to a device.
SessionExpires ==
  /\ pc = "fetch"
  /\ webdriver = "ok"
  /\ webdriver' = "expired"
  /\ EnvUnchanged

\* The browser process dies.
BrowserDies ==
  /\ pc = "fetch"
  /\ webdriver \in {"ok", "expired"}
  /\ webdriver' = "dead"
  /\ EnvUnchanged

(***************************************************************************)
(* Specifications                                                          *)
(***************************************************************************)
\* The program, on a portal whose states are portals and whose pages are
\* pages.
\* powers are the plant powers the aggregation may return, writes the ways
\* a write of the persistence file may end.
ProgramIn(portals, pages, powers, writes) ==
  \/ LoopTop
  \/ \E portal \in portals : CycleStart(portal)
  \/ \E portal \in portals : FetchAttempt(portal, pages)
  \/ ChangeDetection
  \/ Publish(powers, writes)
  \/ IntervalDecision
  \/ SleepTick
  \/ cleanup

\* The program with a steady plant power and a file that can be written.
ProgramOn(portals, pages) == ProgramIn(portals, pages, SteadyPowers, {"ok"})

\* The scheduler: the browser lives, the portal works or not from one
\* request to the next.
Program == ProgramOn(PortalStates, CyclePages)

Next == Program \/ handle_shutdown

Spec == Init /\ [][Next]_vars

\* The main loop runs on until it is told to stop (run.py 413-457).
FairSpec == Spec /\ WF_vars(Program)

\* Errors of every kind: the portal works or not from one request to the
\* next, the page shows a row or none, discovery and the MQTT connection may
\* fail, and so may every write of the persistence file.
ErrorProgram ==
  ProgramIn(PortalStates, {<<RawEarly>>, <<>>}, SteadyPowers, WriteResults)

ErrorSpec ==
  /\ Init
  /\ [][ErrorProgram \/ handle_shutdown]_vars
  /\ WF_vars(ErrorProgram)

\* Recovery: the portal works all the time, the session expires and the
\* browser dies.
RecoveryProgram == ProgramOn({"healthy"}, HealthyPages)

RecoveryNext ==
  RecoveryProgram \/ handle_shutdown \/ SessionExpires \/ BrowserDies

RecoverySpec == Init /\ [][RecoveryNext]_vars

FairRecoverySpec == RecoverySpec /\ WF_vars(RecoveryProgram)

\* One poll (_fetch_data_sync) on a session that run_cycle has ensured, in
\* any of the local time zones, with any page the portal may show.
PollInit ==
  /\ webdriver = "ok"
  /\ mqtt_client = "client"
  /\ shutdown_requested = FALSE
  /\ initial_setup_done = FALSE
  /\ last_known_update_times = EmptyDict
  /\ last_data_change_timestamp = <<>>
  /\ using_extended_interval = FALSE
  /\ data_inactivity_threshold = MaxThreshold
  /\ local_tz \in TzOffsets
  /\ discovered = {}
  /\ pc = "fetch"
  /\ duration = 0
  /\ current_interval_to_use = normal_update_interval
  /\ sleep_end_time = 0
  /\ driver = "webdriver"
  /\ dev = 1
  /\ attempt = 0
  /\ all_device_data = EmptyDict
  /\ data_changed_this_cycle = FALSE
  /\ fetch_outcome = NoOutcomes
  /\ fetch_attempts = NoAttempts
  /\ times_shown = {}
  /\ cycle_result = "pending"
  /\ discovery = "none"
  /\ discovery_retry_due = FALSE
  /\ extended_at_start = FALSE
  /\ published = {}
  /\ offline = "none"
  /\ session_quit = "none"
  /\ NoCalls
  /\ StartedOn(FileAbsent)

PollNext ==
  \/ \E portal \in PortalStates : FetchAttempt(portal, PollPages)
  \/ SessionExpires
  \/ BrowserDies

PollSpec == PollInit /\ [][PollNext]_vars

\* The poll runs on until it returns (web_scraper.py 196-372).
FairPollSpec ==
  PollSpec /\ WF_vars(\E portal \in PortalStates : FetchAttempt(portal, PollPages))

\* The scheduler at rest, with no cycle run so far.
AtRestButData ==
  /\ webdriver = "None"
  /\ shutdown_requested = FALSE
  /\ initial_setup_done = FALSE
  /\ last_known_update_times = EmptyDict
  /\ last_data_change_timestamp = <<>>
  /\ using_extended_interval = FALSE
  /\ local_tz = 0
  /\ discovered = {}
  /\ duration = 0
  /\ current_interval_to_use = normal_update_interval
  /\ sleep_end_time = 0
  /\ driver = "webdriver"
  /\ dev = 1
  /\ attempt = 0
  /\ data_changed_this_cycle = FALSE
  /\ fetch_outcome = NoOutcomes
  /\ fetch_attempts = NoAttempts
  /\ times_shown = {}
  /\ cycle_result = "pending"
  /\ discovery = "none"
  /\ discovery_retry_due = FALSE
  /\ extended_at_start = FALSE
  /\ published = {}
  /\ offline = "none"
  /\ session_quit = "none"

AtRest == AtRestButData /\ all_device_data = EmptyDict

\* One call of calculate_peak_power, on any power, previous peak, reset
\* date and current date.
CalcInit ==
  /\ AtRest
  /\ NoCalls
  /\ pc = "calc"
  /\ mqtt_client = "None"
  /\ data_inactivity_threshold = MaxThreshold
  /\ current_plant_power \in {<<>>} \cup {<<p>> : p \in CalcPowers}
  /\ current_peak_power \in CalcPeaks
  /\ last_reset_date \in {<<>>} \cup {<<d>> : d \in Dates \cup {EarlierDate}}
  /\ today \in Dates
  /\ store = FileAbsent
  /\ loaded = load_peak_power_state(FileAbsent)
  /\ peak_result = <<>>
  /\ save_result = "none"
  /\ peak_published = <<>>
  /\ write_failed = FALSE
  /\ observed = {}

\* run.py 317-319: the call of calculate_peak_power.
CalcPeak ==
  /\ pc = "calc"
  /\ peak_result' = calculate_peak_power(current_plant_power,
                                         current_peak_power, last_reset_date,
                                         today)
  /\ pc' = "calc_done"
  /\ UNCHANGED <<globals, config, loop_locals, fetch_locals,
                 data_changed_this_cycle, cycle_observed, shutdown_observed,
                 session_calls, inactivity, row_locals,
                 peak_globals, peak_env, current_plant_power, save_result,
                 peak_published, peak_history>>

CalcSpec == CalcInit /\ [][CalcPeak]_vars

\* Peaks and reset dates of a valid peak state: the first and the last date
\* of the calendar, a leap day, and the dates of the run.
RoundTripPeaks == {0, 10, 1010, 80000, 100000, 123456780}

RoundTripDates ==
  {[year |-> 1, month |-> 1, day |-> 1], [year |-> 2024, month |-> 2, day |-> 29],
   [year |-> 9999, month |-> 12, day |-> 31], FirstDate, EarlierDate}

\* A peak state to save, and the file that the save finds.
RoundTripInit ==
  /\ AtRest
  /\ NoCalls
  /\ pc = "save"
  /\ mqtt_client = "None"
  /\ data_inactivity_threshold = MaxThreshold
  /\ current_peak_power \in RoundTripPeaks
  /\ last_reset_date \in {<<>>} \cup {<<d>> : d \in RoundTripDates}
  /\ store \in {FileAbsent, FileGarbage,
                FileObject(JNumber(100000), JString(isoformat(FirstDate)))}
  /\ loaded = Loaded("none", 0, <<>>)
  /\ today = FirstDate
  /\ write_failed = FALSE
  /\ observed = {}
  /\ NoPeakCycle

\* persistence.py 27-36: a save whose write succeeds.
SavePeak ==
  /\ pc = "save"
  /\ store' = save_peak_power_state(store, current_peak_power, last_reset_date, "ok")
  /\ save_result' = "saved"
  /\ pc' = "load"
  /\ UNCHANGED <<globals, config, loop_locals, fetch_locals,
                 data_changed_this_cycle, cycle_observed, shutdown_observed,
                 session_calls, inactivity, row_locals,
                 peak_globals, today, current_plant_power, peak_result,
                 peak_published, peak_history>>

\* persistence.py 10-25: the load of what was saved.
LoadPeak ==
  /\ pc = "load"
  /\ loaded' = load_peak_power_state(store)
  /\ pc' = "loaded"
  /\ UNCHANGED <<globals, config, loop_locals, fetch_locals,
                 data_changed_this_cycle, cycle_observed, shutdown_observed,
                 session_calls, inactivity, row_locals,
                 peak_globals, peak_env, peak_cycle, write_failed, observed>>

RoundTripSpec == RoundTripInit /\ [][SavePeak \/ LoadPeak]_vars

\* One call of driver_get_with_retry, on any ends of the driver.get calls
\* it may make.
NavInit ==
  /\ AtRest
  /\ pc = "nav"
  /\ mqtt_client = "None"
  /\ data_inactivity_threshold = MaxThreshold
  /\ nav \in {<<NavStart(o)>> : o \in [1..get_max_attempts -> NavOutcomes]}
  /\ login_context = NoLogin
  /\ inactivity = <<>>
  /\ raw_row_data = EmptyDict
  /\ row_data = EmptyDict
  /\ StartedOn(FileAbsent)

\* web_scraper.py 395-397: the next attempt begins with time.sleep(2).
NavSleepStep ==
  /\ pc = "nav"
  /\ nav[1].result = "running"
  /\ nav[1].slept = nav[1].gets
  /\ nav' = <<NavSleep(nav[1])>>
  /\ UNCHANGED <<globals, config, pc, loop_locals, fetch_locals,
                 data_changed_this_cycle, cycle_observed, shutdown_observed,
                 login_context, inactivity, row_locals,
                 peak_vars>>

\* web_scraper.py 398-415: driver.get, and what follows it.
NavGetStep ==
  /\ pc = "nav"
  /\ nav[1].result = "running"
  /\ nav[1].slept = nav[1].gets + 1
  /\ nav' = <<NavGet(nav[1])>>
  /\ pc' = IF nav'[1].result = "running" THEN "nav" ELSE "nav_done"
  /\ UNCHANGED <<globals, config, loop_locals, fetch_locals,
                 data_changed_this_cycle, cycle_observed, shutdown_observed,
                 login_context, inactivity, row_locals,
                 peak_vars>>

NavSpec == NavInit /\ [][NavSleepStep \/ NavGetStep]_vars

\* The process as it is started (run.py 385-392): the globals have the
\* values of run.py 48-58, the persistence file is one of files.
StartupInitOn(files) ==
  /\ AtRest
  /\ NoCalls
  /\ pc = "startup"
  /\ mqtt_client = "None"
  /\ data_inactivity_threshold = MaxThreshold
  /\ store \in files
  /\ loaded = Loaded("none", 0, <<>>)
  /\ current_peak_power = 0
  /\ last_reset_date = <<>>
  /\ today = FirstDate
  /\ write_failed = FALSE
  /\ observed = {}
  /\ NoPeakCycle

\* run.py 394-400: the peak state is loaded and the MQTT client connected.
\* An exception that load_peak_power_state raises ends the process.
Startup ==
  /\ pc = "startup"
  /\ LET state == load_peak_power_state(store)
     IN  /\ loaded' = state
         /\ IF state.raised # "none"
            THEN /\ pc' = "crashed"
                 /\ UNCHANGED <<peak_globals, mqtt_client>>
            ELSE /\ current_peak_power' = state.peak
                 /\ last_reset_date' = state.date
                 /\ mqtt_client' \in {"None", "client"}
                 /\ pc' = "loop_top"
  /\ UNCHANGED <<peak_env, peak_cycle, write_failed, observed>>
  /\ UNCHANGED shutdown_observed
  /\ UNCHANGED <<inactivity, row_locals>>
  /\ UNCHANGED session_calls
  /\ UNCHANGED <<webdriver, shutdown_requested, initial_setup_done,
                 last_known_update_times, last_data_change_timestamp,
                 using_extended_interval, discovered, config, loop_locals,
                 fetch_locals, data_changed_this_cycle, cycle_observed>>

\* Midnight passes.  The date is read by calculate_peak_power only
\* (utils.py 164-165): a midnight that passes at another time has the
\* effect of one that passes as the cycle comes to the calculation.
DayPasses ==
  /\ pc = "publish"
  /\ NextDay(today) \in Dates
  /\ today' = NextDay(today)
  /\ observed' = {}
  /\ UNCHANGED <<peak_globals, store, peak_cycle, write_failed, loaded>>
  /\ EnvUnchangedButPeak
  /\ UNCHANGED webdriver

\* JSON texts of the keys of the persistence file.
PeakValues ==
  {JMissing, JNull, JArray, JNumber(0), JNumber(1010), JNumber(100000),
   JString(<<"1", "2">>), JString(<<"a", "b">>)}

DateValues ==
  {JMissing, JNull, JArray, JNumber(5), JString(<<>>),
   JString(isoformat(FirstDate)), JString(isoformat(EarlierDate)),
   JString(Pad4(2024) \o <<"-">> \o Pad2(13) \o <<"-">> \o Pad2(1)),
   JString(Pad2(31) \o <<"/">> \o Pad2(12) \o <<"/">> \o Pad4(2024))}

\* The persistence files a start may find.
AllFiles ==
  {FileAbsent, FileGarbage}
    \cup {FileValue(v) : v \in {JNull, JArray, JNumber(1010), JString(<<"a", "b">>)}}
    \cup {FileObject(p, d) : p \in PeakValues, d \in DateValues}

\* One start on any persistence file.
LoadSpec == StartupInitOn(AllFiles) /\ [][Startup]_vars

\* The files that a run of an earlier day or of this day has left.
PeakFiles ==
  {FileAbsent}
    \cup {FileObject(JNumber(100000), JString(isoformat(d))) :
            d \in {EarlierDate, FirstDate}}

\* The program from its start, on a portal that works, with any plant power
\* in each cycle, writes that may fail, and midnights.
PeakProgram == ProgramIn({"healthy"}, {<<RawEarly>>}, PlantPowers, WriteResults)

PeakNext == Startup \/ PeakProgram \/ DayPasses \/ handle_shutdown

PeakSpec == StartupInitOn(PeakFiles) /\ [][PeakNext]_vars

(***************************************************************************)
(* Properties of the session recovery and of the poll                      *)
(***************************************************************************)
ConnectionGiveUp == \E sn \in Serials : fetch_outcome[sn] = "conn_error"

Yielded == \E sn \in Serials : fetch_outcome[sn] = "snapshot"

\* C1: when run_cycle has returned from a poll that gave up on a device
\* after a connection-class error, the held session (webdriver) has been
\* invalidated, so that the next cycle logs in again.
C1_SessionInvalidated ==
  (pc = "decide" /\ ConnectionGiveUp) => webdriver = "None"

\* C2: whenever the held session has expired or the browser has died, with
\* the portal reachable and every login succeeding from then on, a later
\* point of the run has a poll that yielded a snapshot (or the process has
\* been told to stop).
C2_RecoveryLiveness ==
  [](webdriver \in {"expired", "dead"} => <>(Yielded \/ shutdown_requested))

\* The device the poll has just finished with.
DeviceDone == microinverter_map[dev - 1]

PollAt == pc \in {"fetch", "detect"}

\* C3: the poll leaves a device after a connection-class error only when
\* the device has been attempted a second time, on a new session.
C3_SecondAttempt ==
  \A i \in 1..NumDevices :
    (PollAt /\ i < dev /\ fetch_outcome[microinverter_map[i]] = "conn_error")
      => fetch_attempts[microinverter_map[i]] = 2

\* C4: the returned mapping has configured serials as its keys, a device
\* whose fetch failed is absent from it, and when the poll returns every
\* configured device has been attempted, whatever happened to the devices
\* before it.
C4_EveryDeviceAttempted ==
  /\ DOMAIN all_device_data \subseteq Serials
  /\ \A sn \in Serials :
       fetch_outcome[sn] \in {"no_snapshot", "conn_error", "other_error"}
         => sn \notin DOMAIN all_device_data
  /\ pc = "detect" => \A sn \in Serials : fetch_attempts[sn] >= 1

\* A poll has returned in which the first device failed and the second was
\* read.
C4_Witness ==
  /\ pc = "detect"
  /\ fetch_outcome[microinverter_map[1]] \in {"conn_error", "other_error"}
  /\ fetch_outcome[microinverter_map[2]] = "snapshot"
  /\ DOMAIN all_device_data = {microinverter_map[2]}

\* C5: every snapshot of the poll result carries an Update_time of the UTC
\* form YYYY-MM-DDTHH:MM:SSZ.
C5_SnapshotsAreUtcIso ==
  \A sn \in DOMAIN all_device_data : IsUtcIso(all_device_data[sn].Update_time)

\* The UTC times of the valid rows of the page.
ValidTimes == {t \in times_shown : IsUtcIso(t)}

\* C6: the snapshot retained for a device carries the greatest Update_time
\* among the valid rows of the page the device's fetch found.
C6_GreatestRowRetained ==
  (PollAt /\ dev > 1 /\ DeviceDone \in DOMAIN all_device_data)
    => \A t \in ValidTimes :
         ~StrLess(all_device_data[DeviceDone].Update_time, t)

(***************************************************************************)
(* Properties of discovery and of state publication                        *)
(***************************************************************************)
\* publish_state was called in this cycle.
StateCalled == cycle_result \in {"published", "state_skipped"}

\* publish_state is called only once initial_setup_done is set; a discovery
\* that raised leaves the cycle without state and the flag unset.
DiscoveryFirst ==
  /\ StateCalled => initial_setup_done
  /\ published # {} => initial_setup_done
  /\ discovery = "raised"
       => (~StateCalled /\ published = {} /\ ~initial_setup_done)

\* Discovery is attempted only in a cycle whose poll yielded a snapshot.
DiscoveryOnData == (pc = "publish" /\ discovery' # "none") => Yielded

\* C7 as stated: DiscoveryFirst, DiscoveryOnData, and after a discovery that
\* raised every later cycle that reaches the publishing step with data
\* attempts discovery again.
C7_RetriedInNextCycleWithData ==
  /\ []DiscoveryFirst
  /\ [][DiscoveryOnData]_vars
  /\ [][(pc = "publish" /\ discovery_retry_due) => discovery' # "none"]_vars

\* C7: DiscoveryFirst, DiscoveryOnData, and after a discovery that raised
\* every later cycle that reaches the publishing step with data and finds
\* the MQTT client connected attempts discovery again.
C7_RetriedWhenConnected ==
  /\ []DiscoveryFirst
  /\ [][DiscoveryOnData]_vars
  /\ [][(pc = "publish" /\ discovery_retry_due /\ cycle_result' # "mqtt_down")
          => discovery' # "none"]_vars

\* A discovery that had raised in an earlier cycle has been attempted again,
\* has returned, and the state has been published.
C7_Witness ==
  /\ pc = "decide"
  /\ discovery_retry_due
  /\ discovery = "returned"
  /\ initial_setup_done
  /\ published # {}

\* C8: every serial whose state is published has been announced by
\* publish_discovery before.
C8_PublishedWereAnnounced == published \subseteq discovered

(***************************************************************************)
(* Properties of the update interval                                       *)
(***************************************************************************)
\* The devices of the poll result whose valid Update_time differs from the
\* last known one.
NewlyUpdated ==
  {sn \in DOMAIN all_device_data \cap DOMAIN last_known_update_times :
     /\ IsUtcIso(all_device_data[sn].Update_time)
     /\ all_device_data[sn].Update_time # last_known_update_times[sn]}

\* Change detection on a poll with a changed Update_time clears the flag,
\* resets the timestamp to now and stores the new value.
ChangeResets ==
  (pc = "detect" /\ initial_setup_done /\ NewlyUpdated # {})
    => /\ ~using_extended_interval'
       /\ last_data_change_timestamp' = <<0>>
       /\ data_changed_this_cycle'
       /\ \A sn \in NewlyUpdated :
            last_known_update_times'[sn] = all_device_data[sn].Update_time

NormalChosen ==
  ~using_extended_interval' /\ current_interval_to_use' = normal_update_interval

\* C9 as stated: ChangeResets, and the interval decision that follows a
\* cycle with a changed Update_time chooses the normal interval.
C9_NormalAfterChange ==
  [][ChangeResets /\ ((pc = "decide" /\ data_changed_this_cycle) => NormalChosen)]_vars

\* C9: ChangeResets, and the interval decision that follows a cycle with a
\* changed Update_time chooses the normal interval if the time elapsed since
\* the reset does not exceed the inactivity threshold.
C9_NormalAfterChangeWithinThreshold ==
  [][ChangeResets
       /\ ((/\ pc = "decide"
            /\ data_changed_this_cycle
            /\ 0 - last_data_change_timestamp[1] <= data_inactivity_threshold)
             => NormalChosen)]_vars

\* A cycle that began on the extended interval has detected a change and is
\* followed by a sleep of the normal interval.
C9_Witness ==
  /\ pc = "sleep"
  /\ extended_at_start
  /\ data_changed_this_cycle
  /\ ~using_extended_interval
  /\ current_interval_to_use = normal_update_interval

ExtendedSleep ==
  /\ pc = "sleep"
  /\ using_extended_interval
  /\ current_interval_to_use = extended_update_interval

\* An interval decision taken after discovery with more than the threshold
\* elapsed since the last change sets the flag.
ExtendsAtDecision ==
  (/\ pc = "decide"
   /\ initial_setup_done
   /\ last_data_change_timestamp # <<>>
   /\ 0 - last_data_change_timestamp[1] > data_inactivity_threshold)
    => using_extended_interval'

\* C10: once discovery has completed the run reaches a sleep of the extended
\* interval with the flag set, unless a cycle detects a change or the
\* process is told to stop; the flag is set by the first interval decision
\* taken with more than the threshold elapsed since the last change, and
\* every sleep with the flag set uses the extended interval.
C10_ExtendedEventually ==
  /\ [][ExtendsAtDecision]_vars
  /\ []((pc = "sleep" /\ using_extended_interval)
         => current_interval_to_use = extended_update_interval)
  /\ (initial_setup_done
        ~> (ExtendedSleep \/ data_changed_this_cycle \/ shutdown_requested))

\* An extended sleep after a cycle that detected no change.
C10_Witness ==
  /\ ExtendedSleep
  /\ initial_setup_done
  /\ ~data_changed_this_cycle
  /\ ~shutdown_requested
  /\ sleep_end_time > normal_update_interval

\* The inactivity gate has skipped the cycle (run.py 244-250).
SkippedCycle == cycle_result = "skipped"

\* C11: a cycle skipped by the inactivity gate leaves the extended-interval
\* flag cleared, and the interval decision that follows it keeps the flag
\* cleared and chooses the normal interval.
C11_NormalAfterSkip ==
  [][/\ (pc = "run_cycle" /\ SkippedCycle') => ~using_extended_interval'
     /\ (pc = "decide" /\ SkippedCycle) => NormalChosen]_vars

(***************************************************************************)
(* Properties of the shutdown                                              *)
(***************************************************************************)
\* The main loop has ended and cleanup has run.
Terminated == pc = "stopped"

Released == mqtt_client = "None" /\ webdriver = "None"

\* C12 as stated: once shutdown is requested the run reaches the terminal
\* state, and there the offline payload has been published if a client was
\* held, the held session has been quit, and both globals are None.
C12_OfflinePublished ==
  /\ shutdown_requested ~> Terminated
  /\ [](Terminated => (offline # "failed" /\ session_quit # "raised" /\ Released))

\* cleanup calls publish exactly if it holds a client and quit exactly if it
\* holds a session.
CleanupAttempts ==
  pc = "cleanup"
    => /\ (mqtt_client # "None" <=> offline' # "none")
       /\ (webdriver # "None" <=> session_quit' # "none")

\* C12: once shutdown is requested the run reaches the terminal state;
\* cleanup has then attempted to publish the offline payload if a client was
\* held and to quit the session if one was held (either may have failed),
\* and both globals are None.
C12_CleanupAttempted ==
  /\ shutdown_requested ~> Terminated
  /\ [][CleanupAttempts]_vars
  /\ [](Terminated => Released)

\* A requested shutdown has ended with the offline payload published and
\* the session quit.
C12_Witness ==
  /\ Terminated
  /\ shutdown_requested
  /\ offline = "published"
  /\ session_quit = "quit"

\* No acquisition cycle is running.
BetweenCycles == pc \in {"sleep", "loop_top", "cleanup", "stopped"}

\* C13: with shutdown requested, the next test of the sleep loop ends the
\* sleep whatever time remains, the loop test that follows leads to cleanup,
\* and no acquisition cycle is started.
C13_SleepInterrupted ==
  /\ [][(pc = "sleep" /\ shutdown_requested) => pc' = "loop_top"]_vars
  /\ [][(pc = "loop_top" /\ shutdown_requested) => pc' = "cleanup"]_vars
  /\ [](shutdown_requested => BetweenCycles)

\* Cleanup is reached from a sleep of the extended interval that was cut
\* short.
C13_Witness ==
  /\ pc = "cleanup"
  /\ shutdown_requested
  /\ sleep_end_time > 0
  /\ using_extended_interval
  /\ current_interval_to_use = extended_update_interval

(***************************************************************************)
(* Properties of the peak power                                            *)
(***************************************************************************)
\* calculate_peak_power has returned.
Calculated == pc = "calc_done"

\* The reset date is absent or differs from today.
ResetDue == last_reset_date = <<>> \/ last_reset_date[1] # today

\* max(0.0, current_power), 0.0 for an absent power.
PowerOrZero ==
  IF current_plant_power = <<>> THEN 0 ELSE Max2(0, current_plant_power[1])

\* C14: with a reset date that is absent or differs from today the call
\* returns changed = true, today as the reset date and a peak that is at most
\* max(0.0, current_power).
C14_ResetBoundsPeak ==
  (Calculated /\ ResetDue)
    => /\ peak_result.state_changed
       /\ peak_result.new_reset_date = <<today>>
       /\ peak_result.new_peak <= PowerOrZero

Returned(peak, date, changed) ==
  peak_result = [new_peak |-> peak, new_reset_date |-> date,
                 state_changed |-> changed]

\* C15: with today as the reset date, a power that is present and greater
\* than the previous peak gives (round(current_power, 2), today, true); any
\* other power gives the previous peak and date with changed = false.
C15_RaiseOnSameDay ==
  (Calculated /\ last_reset_date = <<today>>)
    => IF current_plant_power # <<>> /\ current_plant_power[1] > current_peak_power
       THEN Returned(round2(current_plant_power[1]), <<today>>, TRUE)
       ELSE Returned(current_peak_power, last_reset_date, FALSE)

\* A reading of 150.0 has raised today's peak of 100.0.
C15_Witness ==
  /\ Calculated
  /\ last_reset_date = <<today>>
  /\ current_plant_power = <<150000>>
  /\ current_peak_power = 100000
  /\ Returned(150000, <<today>>, TRUE)

\* C16: with a reset date that is absent or differs from today and a
\* positive power, the call returns (round(current_power, 2), today, true)
\* whatever the previous peak.
C16_ResetBeforeRaise ==
  (Calculated /\ ResetDue /\ current_plant_power # <<>> /\ PowerOrZero > 0)
    => Returned(round2(current_plant_power[1]), <<today>>, TRUE)

\* The first reading of a day, lower than the peak of the day before.
C16_Witness ==
  /\ Calculated
  /\ last_reset_date = <<EarlierDate>>
  /\ current_peak_power = 100000
  /\ current_plant_power = <<80000>>
  /\ Returned(80000, <<today>>, TRUE)

(***************************************************************************)
(* Properties of the peak power state over the run                         *)
(***************************************************************************)
\* publish_state was given a peak state in this cycle and published it.
PeakPublished == peak_published # <<>>

\* The reset date that the published payload carries.
PublishedDate == date_of(peak_published[1].payload.last_reset_date).date

PublishedPeak == peak_published[1].payload.value

\* The date on which the calculation of the publishing cycle ran.
CalcDate == peak_published[1].calc_date

\* The store that was loaded at the start records peak for the date d.
RecordedFor(peak, d) ==
  loaded.raised = "none" /\ loaded.date = <<d>> /\ loaded.peak = peak

\* C17: every published peak state carries as its reset date the date on
\* which the cycle's peak calculation ran, and its peak is 0.0, a plant
\* power that this process observed on that date, or the peak that the
\* loaded store records for that date.
C17_PeakOfItsDate ==
  PeakPublished =>
    /\ PublishedDate = <<CalcDate>>
    /\ \/ PublishedPeak = 0
       \/ PublishedPeak \in observed
       \/ RecordedFor(PublishedPeak, CalcDate)

\* A peak is published on the day after the one for which the loaded store
\* records a greater peak.
C17_Witness ==
  /\ PeakPublished
  /\ CalcDate = NextDay(FirstDate)
  /\ loaded.date = <<FirstDate>>
  /\ PublishedPeak > 0
  /\ PublishedPeak < loaded.peak

\* The peak state that a start would load from the persistence file now.
DurableState == load_peak_power_state(store)

InMemoryState == Loaded("none", current_peak_power, last_reset_date)

\* The peak calculation of this cycle has run.
PeakCalculated == current_plant_power # <<>>

PeakStateChanges ==
  current_peak_power' # current_peak_power \/ last_reset_date' # last_reset_date

\* C18: the peak state is loaded at startup only and changes otherwise only
\* where calculate_peak_power reports a change; between cycles, if no write
\* of the file has failed, the file holds the in-memory peak and reset date;
\* a cycle calls save_peak_power_state exactly if its calculation reported a
\* change.
C18_SavedOnChange ==
  /\ []((BetweenCycles \/ pc = "decide") /\ ~write_failed
          => DurableState = InMemoryState)
  /\ [](pc = "decide" =>
          (save_result # "none" <=> (PeakCalculated /\ peak_result.state_changed)))
  /\ [][loaded' # loaded => pc = "startup"]_vars
  /\ [][PeakStateChanges =>
          \/ pc = "startup"
          \/ pc = "publish" /\ PeakCalculated' /\ peak_result'.state_changed]_vars

\* A cycle has raised the peak of the day that the loaded file recorded, and
\* the file holds the new peak.
C18_Witness ==
  /\ pc = "decide"
  /\ save_result = "saved"
  /\ ~write_failed
  /\ loaded.date = <<today>>
  /\ current_peak_power > loaded.peak
  /\ store = state_data(current_peak_power, <<today>>)

\* The write of the persistence file failed in this cycle.
SaveFailed == save_result = "failed"

\* C19: a write of the persistence file that fails does not end the cycle:
\* the in-memory peak and reset date take the calculated values, the cycle
\* goes on to MQTT and publishes these values if it publishes, and every
\* calculation compares with the in-memory peak and reset date.
C19_MemoryAuthoritative ==
  /\ [][(pc = "publish" /\ SaveFailed')
          => /\ pc' = "decide"
             /\ cycle_result' # "pending"
             /\ current_peak_power' = peak_result'.new_peak
             /\ last_reset_date' = peak_result'.new_reset_date
             /\ PeakPublished' =>
                  peak_published'[1].payload =
                    peak_payload(peak_result'.new_peak,
                                 peak_result'.new_reset_date)]_vars
  /\ [][(pc = "publish" /\ PeakCalculated')
          => peak_result' = calculate_peak_power(current_plant_power',
                                                 current_peak_power,
                                                 last_reset_date, today)]_vars

\* After a failed write the file holds a lower peak than the memory; a later
\* cycle with a power between the two has left the peak as it was and
\* published it.
C19_Witness ==
  /\ pc = "decide"
  /\ PeakCalculated
  /\ write_failed
  /\ save_result = "none"
  /\ DurableState.peak < current_plant_power[1]
  /\ current_plant_power[1] < current_peak_power
  /\ PeakPublished
  /\ PublishedPeak = current_peak_power

(***************************************************************************)
(* Properties of the load of the persistence file                          *)
(***************************************************************************)
\* The peak of the file is not a number and not the text of one.
NonNumericPeak(v) ==
  \/ v.t \in {"null", "array"}
  \/ v.t = "string" /\ (v.s = <<>> \/ \E k \in 1..Len(v.s) : v.s[k] \notin Digits)

\* The reset date of the file is a text that is not an ISO date.
UnparsableDate(v) == v.t = "string" /\ v.s # <<>> /\ ~fromisoformat(v.s).ok

\* The file is absent, is not JSON, is JSON that is not an object, or is an
\* object with a non-numeric peak or an unparsable date.
AbsentOrMalformed(file) ==
  \/ file.kind \in {"absent", "garbage", "value"}
  \/ file.kind = "object" /\ (NonNumericPeak(file.peak) \/ UnparsableDate(file.date))

\* C20: the start goes past load_peak_power_state on every file, and on a
\* file that is absent or malformed the peak state is (0.0, absent).
C20_LoadDegrades ==
  pc # "startup"
    => /\ pc # "crashed"
       /\ loaded.raised = "none"
       /\ AbsentOrMalformed(store)
            => (current_peak_power = 0 /\ last_reset_date = <<>>)

\* C21: the load of a file that a successful save has written returns the
\* peak and the reset date that were saved, an absent reset date included.
C21_RoundTrip ==
  pc = "loaded" => loaded = Loaded("none", current_peak_power, last_reset_date)

\* A peak with the leap day as its reset date has been saved over a file
\* that was not JSON, and loaded.
C21_Witness ==
  /\ pc = "loaded"
  /\ loaded.peak = 1010
  /\ loaded.date = <<[year |-> 2024, month |-> 2, day |-> 29]>>
  /\ store = state_data(1010, loaded.date)

(***************************************************************************)
(* Properties of the navigation and of the login                           *)
(***************************************************************************)
\* The driver.get calls that return, of the calls that nav may make.
Returning == [i \in 1..get_max_attempts |-> nav[1].outcomes[i] = "ok"]

NavReturned == pc = "nav_done"

\* C27: driver_get_with_retry calls driver.get at most get_max_attempts
\* times and sleeps before each call; it returns True at the first call that
\* returns and makes no call after it, returns False exactly if every call
\* raised, and ends in no other way; the poll's driver_get_with_retry is
\* this result.
C27_BoundedNavigation ==
  /\ [](pc \in {"nav", "nav_done"} =>
          /\ nav[1].gets <= get_max_attempts
          /\ nav[1].gets <= nav[1].slept
          /\ nav[1].slept <= nav[1].gets + 1)
  /\ [][(pc = "nav" /\ nav'[1].gets > nav[1].gets)
          => nav[1].slept = nav'[1].gets]_vars
  /\ [](NavReturned =>
          /\ nav[1].result \in {"true", "false"}
          /\ nav[1].result = "true" =>
               /\ Returning[nav[1].gets]
               /\ \A i \in 1..(nav[1].gets - 1) : ~Returning[i]
          /\ nav[1].result = "false" <=> \A i \in 1..get_max_attempts : ~Returning[i]
          /\ (nav[1].result = "true") = driver_get_with_retry(Returning)
          /\ [nav[1] EXCEPT !.outcomes = <<>>] = NavDone(Returning))

\* The second call has returned after the first one raised.
C27_Witness ==
  /\ NavReturned
  /\ nav[1].outcomes[1] = "driver_error"
  /\ nav[1].result = "true"
  /\ nav[1].gets = 2
  /\ nav[1].slept = 2

\* The login has failed inside this cycle's call of validate_connection.
LoginFailed == login_context # <<>> /\ login_context[1].raised = "ValueError"

\* What a cycle does after the session is ensured has not been done.
NothingFetchedOrPublished ==
  /\ \A sn \in Serials : fetch_attempts[sn] = 0
  /\ all_device_data = EmptyDict
  /\ ~PeakCalculated
  /\ save_result = "none"
  /\ discovery = "none"
  /\ published = {}
  /\ ~PeakPublished

\* C22: when the login fails inside validate_connection the browser that
\* was created is quit, run_cycle returns holding no session, with no fetch,
\* no peak update, no write of the file and nothing published; no session is
\* held until the next cycle that is not skipped, which calls
\* validate_connection again.
C22_LoginFailureEndsCycle ==
  /\ []((pc = "decide" /\ LoginFailed)
          => /\ login_context[1].context = "quit"
             /\ webdriver = "None"
             /\ NothingFetchedOrPublished)
  /\ [][(pc = "run_cycle" /\ LoginFailed')
          => pc' = "decide" /\ UNCHANGED <<peak_globals, store, mqtt_client>>]_vars
  /\ [][(pc \in {"decide", "sleep", "loop_top"}) => UNCHANGED webdriver]_vars
  /\ [][(pc = "run_cycle" /\ webdriver = "None" /\ cycle_result' # "skipped")
          => login_context' # <<>>]_vars

\* A cycle has ended on a login that failed at the navigation to the login
\* page.
C22_Witness ==
  /\ pc = "decide"
  /\ LoginFailed
  /\ login_context[1].get_raised
  /\ login_context[1].context = "quit"
  /\ webdriver = "None"

\* C28: a login whose first navigation to the login page raised has
\* navigated again, as driver_get_with_retry does.
C28_LoginNavigationRetried ==
  (login_context # <<>> /\ login_context[1].get_raised)
    => login_context[1].gets > 1

\* C26: in a poll every device is attempted at most max_attempts times and
\* every attempt calls driver.get at most get_max_attempts times; every
\* step of the poll is an attempt that is counted, and the poll returns, also
\* when every navigation and every wait fails.
C26_BoundedRetries ==
  /\ [](\A sn \in Serials : fetch_attempts[sn] <= max_attempts)
  /\ [](nav # <<>> => nav[1].gets <= get_max_attempts)
  /\ [][(pc = "fetch" /\ UNCHANGED webdriver)
          => fetch_attempts'[microinverter_map[dev]]
               = fetch_attempts[microinverter_map[dev]] + 1]_vars
  /\ <>(pc # "fetch")

\* The poll has returned with no snapshot: the wait failed for the first
\* device, and every navigation to the page of the last one.
C26_Witness ==
  /\ pc = "detect"
  /\ all_device_data = EmptyDict
  /\ fetch_outcome[microinverter_map[1]] = "conn_error"
  /\ fetch_attempts[microinverter_map[NumDevices]] = 1
  /\ nav # <<>>
  /\ nav[1].result = "false"
  /\ nav[1].gets = get_max_attempts

(***************************************************************************)
(* Properties of the main loop under errors                                *)
(***************************************************************************)
InCycle == pc \in {"run_cycle", "fetch", "detect", "publish", "decide", "sleep"}

\* C23: whatever fails in a cycle, the process is in its main loop or has
\* been told to stop, every cycle that has begun is followed by the next
\* test of the loop, and the loop is left only with shutdown_requested true.
C23_LoopSurvivesErrors ==
  /\ [](pc = "loop_top" \/ InCycle \/ shutdown_requested)
  /\ [][pc' = "cleanup" => (pc = "loop_top" /\ shutdown_requested)]_vars
  /\ InCycle ~> pc = "loop_top"

\* The loop begins a cycle after discovery has raised and a write of the
\* file has failed.
C23_Witness ==
  /\ pc = "run_cycle"
  /\ ~shutdown_requested
  /\ write_failed
  /\ discovery_retry_due

(***************************************************************************)
(* Aggregation (utils.aggregate_plant_data).  A row is given by its Power  *)
(* column: <<>> where the row has no Power, <<NoText>> where it is None,   *)
(* <<t>> where it is the text t.  Texts carry no blanks, exponents or      *)
(* digits past the thousandths.                                            *)
(***************************************************************************)
\* A replace that leaves the commas.
keep_comma(t) == t

\* utils.py 97: str(value_str).replace(',', '.')
replace_comma(t) == [i \in 1..Len(t) |-> IF t[i] = "," THEN "." ELSE t[i]]

\* The thousandths of the digits after the point.
Thousandths(frac) == DigitsValue(SubSeq(frac \o <<"0", "0", "0">>, 1, 3), 3)

\* utils.py 97: float() of a text: an optional sign, digits with at most one
\* point, one digit at least; anything else raises ValueError.
float_of_text(t) ==
  LET signed == Len(t) >= 1 /\ t[1] \in {"+", "-"}
      body   == IF signed THEN SubSeq(t, 2, Len(t)) ELSE t
      points == {i \in 1..Len(body) : body[i] = "."}
      p      == IF points = {} THEN Len(body) + 1 ELSE CHOOSE i \in points : TRUE
      whole  == SubSeq(body, 1, p - 1)
      frac   == SubSeq(body, p + 1, Len(body))
      size   == 1000 * DigitsValue(whole, Len(whole)) + Thousandths(frac)
  IN  IF /\ Cardinality(points) <= 1
         /\ \A i \in 1..Len(body) : body[i] \in Digits \cup {"."}
         /\ \E i \in 1..Len(body) : body[i] \in Digits
      THEN [ok |-> TRUE, value |-> IF signed /\ t[1] = "-" THEN 0 - size ELSE size]
      ELSE [ok |-> FALSE, value |-> 0]

\* utils.py 95-100, 112-117: what a row adds to plant_sum_power.
power_added(row) ==
  IF row.Power = <<>> \/ row.Power = <<NoText>> THEN 0
  ELSE LET f == float_of_text(replace_comma(row.Power[1]))
       IN  IF f.ok THEN f.value ELSE 0

\* utils.py 80-148: the loop over the devices.
RECURSIVE plant_sum_power(_, _)
plant_sum_power(fetched_data, sns) ==
  IF sns = {} THEN 0
  ELSE LET sn == CHOOSE x \in sns : TRUE
       IN  power_added(fetched_data[sn]) + plant_sum_power(fetched_data, sns \ {sn})

\* utils.py 62-159 with run.py 309-315: plant_data.get("Power") as a number,
\* <<>> for the empty dict that empty data gives.
aggregate_plant_data(fetched_data) ==
  IF DOMAIN fetched_data = {} THEN <<>>
  ELSE <<round2(plant_sum_power(fetched_data, DOMAIN fetched_data))>>

\* Power columns: "1200,5", "300.0", "80", "0,004", "1.006", "--", "1.200,5"
\* and the empty text, with what each is worth in thousandths of a watt
\* (-1: it is no number).
PowerTexts ==
  << [text |-> <<"1", "2", "0", "0", ",", "5">>, worth |-> 1200500],
     [text |-> <<"3", "0", "0", ".", "0">>, worth |-> 300000],
     [text |-> <<"8", "0">>, worth |-> 80000],
     [text |-> <<"0", ",", "0", "0", "4">>, worth |-> 4],
     [text |-> <<"1", ".", "0", "0", "6">>, worth |-> 1006],
     [text |-> <<"-", "-">>, worth |-> -1],
     [text |-> <<"1", ".", "2", "0", "0", ",", "5">>, worth |-> -1],
     [text |-> <<>>, worth |-> -1] >>

PowerRows ==
  {[Power |-> <<>>], [Power |-> <<NoText>>]}
    \cup {[Power |-> <<PowerTexts[k].text>>] : k \in DOMAIN PowerTexts}

\* The snapshots of a cycle: a row for each of some devices.
Snapshots == UNION {[sns -> PowerRows] : sns \in SUBSET Serials}

AggInit ==
  /\ AtRestButData
  /\ NoCalls
  /\ pc = "aggregate"
  /\ mqtt_client = "None"
  /\ data_inactivity_threshold = MaxThreshold
  /\ current_peak_power = 0
  /\ last_reset_date = <<>>
  /\ store = FileAbsent
  /\ loaded = Loaded("none", 0, <<>>)
  /\ today = FirstDate
  /\ write_failed = FALSE
  /\ observed = {}
  /\ NoPeakCycle
  /\ all_device_data \in Snapshots

\* run.py 305-315: the call of aggregate_plant_data and the plant power
\* taken from what it returns.
Aggregate ==
  /\ pc = "aggregate"
  /\ current_plant_power' = aggregate_plant_data(all_device_data)
  /\ pc' = "aggregated"
  /\ UNCHANGED <<globals, config, loop_locals, fetch_locals,
                 data_changed_this_cycle, cycle_observed, shutdown_observed,
                 session_calls, inactivity, row_locals,
                 peak_globals, peak_env, peak_result, save_result,
                 peak_published, peak_history>>

AggSpec == AggInit /\ [][Aggregate]_vars

\* What the Power column of a device is worth: nothing where it is absent,
\* None or no number.
WorthOf(row) ==
  IF row.Power = <<>> \/ row.Power = <<NoText>> THEN 0
  ELSE LET k == CHOOSE k \in DOMAIN PowerTexts : PowerTexts[k].text = row.Power[1]
       IN  Max2(0, PowerTexts[k].worth)

RECURSIVE SumOfWorth(_, _)
SumOfWorth(data, i) ==
  IF i = 0 THEN 0
  ELSE SumOfWorth(data, i - 1)
         + (IF microinverter_map[i] \in DOMAIN data
            THEN WorthOf(data[microinverter_map[i]]) ELSE 0)

Aggregated == pc = "aggregated" /\ DOMAIN all_device_data # {}

\* C24 as stated: the plant Power is the sum of the devices' Power columns,
\* a comma read as the decimal point, a column that is absent or no number
\* adding nothing.
C24_PowerIsSum ==
  Aggregated => current_plant_power = <<SumOfWorth(all_device_data, NumDevices)>>

\* C24: the plant Power is that sum rounded to the hundredth of a watt:
\* "1200,5" and "300.0" give 1500.5, "0,004" alone gives 0.
C24_PowerIsRoundedSum ==
  /\ Aggregated =>
       current_plant_power = <<round2(SumOfWorth(all_device_data, NumDevices))>>
  /\ (/\ Aggregated
      /\ DOMAIN all_device_data = Serials
      /\ all_device_data["SN1"].Power = <<PowerTexts[1].text>>
      /\ all_device_data["SN2"].Power = <<PowerTexts[2].text>>)
       => current_plant_power = <<1500500>>

\* A device whose Power is no number has been summed with one whose Power
\* has a comma and thousandths.
C24_Witness ==
  /\ Aggregated
  /\ all_device_data = [sn \in Serials |->
                          IF sn = "SN1" THEN [Power |-> <<PowerTexts[6].text>>]
                          ELSE [Power |-> <<PowerTexts[4].text>>]]
  /\ current_plant_power = <<0>>

\* Configurations of the window.
Configs ==
  {[enabled |-> b, start |-> TimeTexts[i].text, end |-> TimeTexts[j].text] :
     b \in BOOLEAN, i \in DOMAIN TimeTexts, j \in DOMAIN TimeTexts}

\* Local times of the clock.
ClockTimes ==
  {TimeOfDay(23, 0, 0), TimeOfDay(2, 0, 0), TimeOfDay(6, 0, 0),
   TimeOfDay(20, 0, 0), TimeOfDay(21, 0, 0), TimeOfDay(20, 59, 59),
   TimeOfDay(5, 30, 0), TimeOfDay(5, 29, 59), TimeOfDay(10, 0, 0),
   TimeOfDay(13, 59, 59), TimeOfDay(14, 0, 0), TimeOfDay(0, 0, 0)}

InactivityInit ==
  /\ AtRest
  /\ login_context = NoLogin
  /\ nav = NavIdle
  /\ pc = "gate"
  /\ raw_row_data = EmptyDict
  /\ row_data = EmptyDict
  /\ mqtt_client = "None"
  /\ data_inactivity_threshold = MaxThreshold
  /\ current_peak_power = 0
  /\ last_reset_date = <<>>
  /\ store = FileAbsent
  /\ loaded = Loaded("none", 0, <<>>)
  /\ today = FirstDate
  /\ write_failed = FALSE
  /\ observed = {}
  /\ NoPeakCycle
  /\ \E cfg \in Configs, now \in ClockTimes :
       inactivity = <<[config |-> cfg, now |-> now, returned |-> <<>>]>>

\* run.py 244: the call of is_inactive.
IsInactive ==
  /\ pc = "gate"
  /\ UNCHANGED row_locals
  /\ inactivity' = <<[inactivity[1] EXCEPT
                        !.returned = <<is_inactive(inactivity[1].config,
                                                   inactivity[1].now)>>]>>
  /\ pc' = "gated"
  /\ UNCHANGED <<globals, config, loop_locals, fetch_locals,
                 data_changed_this_cycle, cycle_observed, shutdown_observed,
                 session_calls, peak_vars>>

InactivitySpec == InactivityInit /\ [][IsInactive]_vars

\* The time of day a configured text names.
NamedTime(text) ==
  TimeTexts[CHOOSE k \in DOMAIN TimeTexts : TimeTexts[k].text = text].time

WindowCall == inactivity[1]

WindowStart == NamedTime(WindowCall.config.start)

WindowEnd == NamedTime(WindowCall.config.end)

WindowParsable == WindowStart >= 0 /\ WindowEnd >= 0

InWindow(t, start, end) ==
  \/ start > end /\ (t >= start \/ t < end)
  \/ start <= end /\ start <= t /\ t < end

\* C25: an enabled window with parsable times is active exactly inside it,
\* an overnight window wrapping over midnight; 21:00 to 05:30 is active at
\* 23:00 and 02:00 and not at 06:00 and 20:00; a disabled window or one with
\* an unparsable time is never active.
C25_InactiveInWindow ==
  pc = "gated" =>
    /\ (WindowCall.config.enabled /\ WindowParsable)
         => WindowCall.returned = <<InWindow(WindowCall.now, WindowStart, WindowEnd)>>
    /\ (/\ WindowCall.config.enabled
        /\ WindowCall.config.start = TimeTexts[1].text
        /\ WindowCall.config.end = TimeTexts[2].text)
         => /\ WindowCall.now \in {TimeOfDay(23, 0, 0), TimeOfDay(2, 0, 0)}
                 => WindowCall.returned = <<TRUE>>
            /\ WindowCall.now \in {TimeOfDay(6, 0, 0), TimeOfDay(20, 0, 0)}
                 => WindowCall.returned = <<FALSE>>
    /\ (~WindowCall.config.enabled \/ ~WindowParsable)
         => WindowCall.returned = <<FALSE>>

\* The window 21:00 to 05:30 has been found active at 02:00.
C25_Witness ==
  /\ pc = "gated"
  /\ WindowCall.config.enabled
  /\ WindowCall.config.start = TimeTexts[1].text
  /\ WindowCall.config.end = TimeTexts[2].text
  /\ WindowCall.now = TimeOfDay(2, 0, 0)
  /\ WindowCall.returned = <<TRUE>>

(***************************************************************************)
(* The inactivity gate of run_cycle                                        *)
(***************************************************************************)
\* The local time at which this cycle began lies in the configured window.
GateInWindow ==
  InWindow(inactivity[1].now, NamedTime(CONFIG.start), NamedTime(CONFIG.end))

\* C29: a cycle is skipped exactly if initial_setup_done is true and the
\* window is active; the skipped cycle logs in nowhere, fetches, calculates,
\* writes and publishes nothing and changes of the scheduler's state only
\* using_extended_interval, to false; before discovery has completed a cycle
\* runs inside the window too.
C29_GateSkipsExactly ==
  /\ [][pc = "run_cycle" =>
          ((cycle_result' = "skipped") <=> (initial_setup_done /\ GateInWindow'))]_vars
  /\ [][(pc = "run_cycle" /\ cycle_result' = "skipped") =>
          /\ pc' = "decide"
          /\ using_extended_interval' = FALSE
          /\ login_context' = NoLogin /\ nav' = NavIdle
          /\ fetch_attempts' = NoAttempts /\ all_device_data' = EmptyDict
          /\ current_plant_power' = <<>> /\ peak_result' = <<>>
          /\ save_result' = "none"
          /\ discovery' = "none" /\ published' = {} /\ peak_published' = <<>>
          /\ UNCHANGED <<webdriver, mqtt_client, shutdown_requested,
                         initial_setup_done, last_known_update_times,
                         last_data_change_timestamp, discovered, config,
                         loop_locals, peak_globals, store>>]_vars
  /\ [][(pc = "run_cycle" /\ ~initial_setup_done /\ GateInWindow') =>
          (pc' = "fetch" \/ cycle_result' = "login_failed")]_vars

\* Inside the window a cycle has been skipped and has cleared the flag.
C29_Witness ==
  /\ pc = "decide"
  /\ cycle_result = "skipped"
  /\ inactivity # <<>> /\ GateInWindow
  /\ inactivity[1].returned = <<TRUE>>
  /\ extended_at_start
  /\ ~using_extended_interval

\* Inside the window a cycle runs while discovery has not completed.
C29_RunsBeforeDiscovery ==
  /\ pc = "fetch"
  /\ ~initial_setup_done
  /\ inactivity # <<>> /\ GateInWindow
  /\ inactivity[1].returned = <<>>

(***************************************************************************)
(* The cycle whose poll yields nothing                                     *)
(***************************************************************************)
\* What a cycle without a snapshot is to leave alone.
kept_without_data ==
  <<last_known_update_times, using_extended_interval, current_peak_power,
    last_reset_date, initial_setup_done, store>>

\* last_data_change_timestamp is not assigned: the time it holds only grows
\* older.
TimestampKept ==
  \E d \in 0..MaxStep :
    last_data_change_timestamp' = Aged(last_data_change_timestamp, d)

NoDataCycle == cycle_result = "no_data"

\* C30: the cycle ends at run.py 271-274 exactly if the poll has returned
\* no snapshot; from its begin to its end it changes none of
\* last_known_update_times, last_data_change_timestamp,
\* using_extended_interval, current_peak_power, last_reset_date and
\* initial_setup_done, writes no file, and calls neither publish_discovery
\* nor publish_state.
C30_NoDataTouchesNothing ==
  /\ [][pc = "detect" => (NoDataCycle' <=> all_device_data = EmptyDict)]_vars
  /\ [][((pc = "run_cycle" /\ pc' = "fetch") \/ pc = "fetch"
           \/ (pc = "detect" /\ NoDataCycle'))
          => (UNCHANGED kept_without_data /\ TimestampKept)]_vars
  /\ [](NoDataCycle =>
          /\ pc = "decide"
          /\ using_extended_interval = extended_at_start
          /\ current_plant_power = <<>> /\ peak_result = <<>>
          /\ save_result = "none"
          /\ discovery = "none" /\ published = {} /\ peak_published = <<>>)

\* After discovery, on the extended interval, a poll has returned nothing.
C30_Witness ==
  /\ NoDataCycle
  /\ pc = "decide"
  /\ initial_setup_done
  /\ using_extended_interval
  /\ last_known_update_times # EmptyDict

(***************************************************************************)
(* Properties of the change detection and of the interval decision         *)
(***************************************************************************)
\* Every polled device with a usable Update_time shows the Update_time that
\* is stored for it.
AllAsStored ==
  \A sn \in DOMAIN all_device_data :
    IsUsableUpdateTime(all_device_data[sn].Update_time)
      => /\ sn \in DOMAIN last_known_update_times
         /\ last_known_update_times[sn] = all_device_data[sn].Update_time

\* C31: after discovery, a change detection that finds every usable
\* Update_time as stored leaves last_known_update_times,
\* last_data_change_timestamp and using_extended_interval as they are and
\* does not mark the cycle as changed.
C31_UnchangedKeepsState ==
  [][(pc = "detect" /\ initial_setup_done /\ HasData(all_device_data)
        /\ AllAsStored)
       => /\ UNCHANGED <<last_known_update_times, last_data_change_timestamp,
                         using_extended_interval>>
          /\ ~data_changed_this_cycle'
          /\ pc' = "publish"]_vars

\* On the extended interval a device has shown its stored Update_time and
\* the cycle goes on to publish with the flag still set.
C31_Witness ==
  /\ pc = "publish"
  /\ initial_setup_done
  /\ using_extended_interval
  /\ ~data_changed_this_cycle
  /\ \E sn \in DOMAIN all_device_data :
       /\ IsUsableUpdateTime(all_device_data[sn].Update_time)
       /\ sn \in DOMAIN last_known_update_times
       /\ last_known_update_times[sn] = all_device_data[sn].Update_time
  /\ last_data_change_timestamp # <<>> /\ last_data_change_timestamp[1] < 0

\* The time since the last data change is measured and exceeds the
\* threshold.
ThresholdExceeded ==
  /\ last_data_change_timestamp # <<>>
  /\ 0 - last_data_change_timestamp[1] > data_inactivity_threshold

\* C32: the interval decision never clears using_extended_interval; it sets
\* it only when it is false, discovery has completed and the time since
\* last_data_change_timestamp exceeds the threshold.  The flag is cleared
\* only in run_cycle: by the inactivity gate, which skips the cycle, or by a
\* change detection that has found new data.
C32_DecisionOnlyExtends ==
  /\ [][pc = "decide" =>
          /\ using_extended_interval => using_extended_interval'
          /\ (~using_extended_interval /\ using_extended_interval')
               => (initial_setup_done /\ ThresholdExceeded)]_vars
  /\ [][(using_extended_interval /\ ~using_extended_interval') =>
          \/ pc = "run_cycle" /\ cycle_result' = "skipped"
          \/ pc = "detect" /\ data_changed_this_cycle']_vars

\* The decision after a cycle that began on the normal interval has set the
\* flag.
C32_Witness ==
  /\ pc = "sleep"
  /\ using_extended_interval
  /\ ~extended_at_start
  /\ initial_setup_done
  /\ current_interval_to_use = extended_update_interval

\* The serials of the poll result whose Update_time is usable.
UsableSerials ==
  {sn \in DOMAIN all_device_data :
     IsUsableUpdateTime(all_device_data[sn].Update_time)}

DiscoverySucceeds == pc = "publish" /\ ~initial_setup_done /\ initial_setup_done'

\* C33: before discovery has completed the change detection does nothing
\* and nothing is stored; the cycle in which discovery succeeds sets
\* last_data_change_timestamp to now and stores the usable Update_time of
\* every polled device, and a change detection that then finds these
\* Update_times again does not mark the cycle as changed.
C33_DetectionAfterDiscovery ==
  /\ [](~initial_setup_done =>
          /\ last_known_update_times = EmptyDict
          /\ last_data_change_timestamp = <<>>
          /\ ~data_changed_this_cycle)
  /\ [][(pc = "detect" /\ ~initial_setup_done) =>
          UNCHANGED <<last_known_update_times, last_data_change_timestamp,
                      using_extended_interval, data_changed_this_cycle>>]_vars
  /\ [][DiscoverySucceeds =>
          /\ last_data_change_timestamp' = <<0>>
          /\ DOMAIN last_known_update_times' = UsableSerials
          /\ \A sn \in UsableSerials :
               last_known_update_times'[sn] = all_device_data[sn].Update_time]_vars
  /\ [][DiscoverySucceeds =>
          ChangedSerials(all_device_data, last_known_update_times') = {}]_vars
  /\ [][(pc = "detect" /\ initial_setup_done /\ AllAsStored)
          => ~data_changed_this_cycle']_vars

\* Discovery has succeeded in a cycle that got a snapshot of one device
\* and none of the other.
C33_Witness ==
  /\ pc = "decide"
  /\ discovery = "returned"
  /\ initial_setup_done
  /\ last_data_change_timestamp = <<0>>
  /\ DOMAIN last_known_update_times # {}
  /\ DOMAIN last_known_update_times # Serials

\* C34: initial_setup_done never goes from true back to false, and once it
\* is true no cycle calls publish_discovery again or announces a device,
\* whatever it has fetched; a call of publish_discovery that returns is made
\* only while initial_setup_done is false, and sets it.
C34_DiscoveryOnce ==
  /\ [][initial_setup_done =>
          /\ initial_setup_done'
          /\ discovery' = "none"
          /\ discovered' = discovered]_vars
  /\ [][(pc = "publish" /\ discovery' = "returned") =>
          ~initial_setup_done /\ initial_setup_done']_vars

\* After discovery a cycle has fetched and published a device that the
\* discovery did not announce.
C34_Witness ==
  /\ initial_setup_done
  /\ pc = "decide"
  /\ discovery = "none"
  /\ cycle_result = "published"
  /\ published \ discovered # {}

(***************************************************************************)
(* The columns of a table row (web_scraper.py 229-297).  A text is a       *)
(* sequence of characters, a cell is <<>> where reading its text raises    *)
(* and <<text>> otherwise, a key of row_data is the text of its name with  *)
(* a column name as one character.                                         *)
(***************************************************************************)
Newline == "\n"

Whitespace == {" ", Newline}

\* str.strip
RECURSIVE strip(_)
strip(t) ==
  IF t = <<>> THEN t
  ELSE IF t[1] \in Whitespace THEN strip(Tail(t))
  ELSE IF t[Len(t)] \in Whitespace THEN strip(SubSeq(t, 1, Len(t) - 1))
  ELSE t

\* str.upper, on the letters of the model.
upper(t) ==
  [i \in 1..Len(t) |-> IF t[i] = "p" THEN "P" ELSE IF t[i] = "v" THEN "V" ELSE t[i]]

\* str.split("\n")
RECURSIVE split(_)
split(t) ==
  IF \A i \in 1..Len(t) : t[i] # Newline THEN <<t>>
  ELSE LET i == CHOOSE i \in 1..Len(t) :
                  t[i] = Newline /\ \A j \in 1..(i - 1) : t[j] # Newline
       IN  <<SubSeq(t, 1, i - 1)>> \o split(SubSeq(t, i + 1, Len(t)))

\* const.py 48-66: the columns of the model, with the index of the cell
\* counted from 1.
COLUMN_MAPPING ==
  [ID |-> 1, Panel_Channel |-> 4, Panel_Voltage |-> 5, Panel_Current |-> 6,
   Panel_Power |-> 7]

\* web_scraper.py 279
PanelAttributes == {"Panel_Voltage", "Panel_Current", "Panel_Power"}

\* 233-243: raw_row_data of the cells of a row.
RawRowData(cols) ==
  [column_name \in {c \in DOMAIN COLUMN_MAPPING : COLUMN_MAPPING[c] <= Len(cols)} |->
     IF cols[COLUMN_MAPPING[column_name]] = <<>> THEN <<>>
     ELSE <<strip(cols[COLUMN_MAPPING[column_name]][1])>>]

\* dict.get
get(d, key) == IF key \in DOMAIN d THEN d[key] ELSE <<>>

\* A split that writes the first value under the column's name as well.
split_keeping_whole(column_name, channel_values, values) ==
  LET keyed == {i \in 1..Len(channel_values) :
                  upper(strip(channel_values[i])) # <<>>}
      key_at(i) == upper(strip(channel_values[i])) \o <<"_", column_name>>
  IN  [k \in {key_at(i) : i \in keyed} \cup {<<column_name>>} |->
         IF k = <<column_name>> THEN <<values[1]>>
         ELSE <<strip(values[CHOOSE i \in keyed :
                               key_at(i) = k /\ \A j \in keyed : key_at(j) = k => j <= i])>>]

\* 286-290: the entries written for the channels of a column; of two
\* channels with the same key the later one stays.
split_entries(column_name, channel_values, values) ==
  LET keyed == {i \in 1..Len(channel_values) :
                  upper(strip(channel_values[i])) # <<>>}
      key_at(i) == upper(strip(channel_values[i])) \o <<"_", column_name>>
  IN  [k \in {key_at(i) : i \in keyed} |->
         <<strip(values[CHOOSE i \in keyed :
                          key_at(i) = k /\ \A j \in keyed : key_at(j) = k => j <= i])>>]

\* 278-297: the entries of row_data written for one column.
column_entries(column_name, raw) ==
  IF column_name \in PanelAttributes
  THEN IF /\ "Panel_Channel" \in DOMAIN COLUMN_MAPPING
          /\ get(raw, "Panel_Channel") # <<>>
          /\ raw[column_name] # <<>>
       THEN LET channel_values == split(raw["Panel_Channel"][1])
                values == split(raw[column_name][1])
            IN  IF Len(channel_values) = Len(values)
                THEN split_entries(column_name, channel_values, values)
                ELSE [k \in {<<column_name>>} |-> raw[column_name]]
       ELSE IF raw[column_name] # <<>>
       THEN [k \in {<<column_name>>} |-> raw[column_name]]
       ELSE EmptyDict
  ELSE IF column_name # "Panel_Channel"
  THEN [k \in {<<column_name>>} |-> raw[column_name]]
  ELSE EmptyDict

\* 277-297: row_data after the loop over the columns.
panel_row_data(raw) ==
  [k \in UNION {DOMAIN column_entries(c, raw) : c \in DOMAIN raw} |->
     column_entries(CHOOSE c \in DOMAIN raw : k \in DOMAIN column_entries(c, raw),
                    raw)[k]]

\* The texts of the channel cell and of a value cell.
ChannelCells ==
  {<<>>,
   <<<<"p", "v", "1">>>>,
   <<<<"p", "v", "1", Newline, "P", "V", "2", " ">>>>,
   <<<<"p", "v", "1", Newline, " ", Newline, "p", "v", "2">>>>,
   <<<<"p", "v", "1", Newline, "P", "V", "1">>>>,
   <<<<" ">>>>}

ValueCells ==
  {<<>>,
   <<<<"3", "0">>>>,
   <<<<"3", "0", Newline, " ", "2", "9">>>>,
   <<<<"3", "0", Newline, "0", Newline, "2", "9", " ">>>>}

IdCell == <<<<"7">>>>

\* The cells of the first row: any number of them, the cells of the model's
\* columns with any of their texts.
RowCells ==
  {[i \in 1..n |-> IF i < COLUMN_MAPPING.Panel_Channel THEN IdCell
                   ELSE IF i = COLUMN_MAPPING.Panel_Channel THEN channel
                   ELSE values[i - COLUMN_MAPPING.Panel_Channel]] :
     n \in 0..COLUMN_MAPPING.Panel_Power,
     channel \in ChannelCells,
     values \in [1..Cardinality(PanelAttributes) -> ValueCells]}

RowInit ==
  /\ AtRest
  /\ login_context = NoLogin
  /\ nav = NavIdle
  /\ inactivity = <<>>
  /\ row_data = EmptyDict
  /\ pc = "row"
  /\ mqtt_client = "None"
  /\ data_inactivity_threshold = MaxThreshold
  /\ current_peak_power = 0
  /\ last_reset_date = <<>>
  /\ store = FileAbsent
  /\ loaded = Loaded("none", 0, <<>>)
  /\ today = FirstDate
  /\ write_failed = FALSE
  /\ observed = {}
  /\ NoPeakCycle
  /\ \E cols \in RowCells : raw_row_data = RawRowData(cols)

\* 277-297: the loop over the columns of raw_row_data.
ProcessColumns ==
  /\ pc = "row"
  /\ row_data' = panel_row_data(raw_row_data)
  /\ pc' = "row_done"
  /\ UNCHANGED raw_row_data
  /\ UNCHANGED <<globals, config, loop_locals, fetch_locals,
                 data_changed_this_cycle, cycle_observed, shutdown_observed,
                 session_calls, inactivity, peak_vars>>

RowSpec == RowInit /\ [][ProcessColumns]_vars

\* The number of lines of a text.
LineCount(t) == Cardinality({i \in 1..Len(t) : t[i] = Newline}) + 1

\* The keys of row_data that end in an underscore and the name of a column.
Prefixed(column_name) ==
  {k \in DOMAIN row_data :
     Len(k) > 2 /\ k[Len(k)] = column_name /\ k[Len(k) - 1] = "_"}

Unsplit(column_name) == <<column_name>> \in DOMAIN row_data

\* The channel cell and the cell of the column have a text each, of the
\* same number of lines.
CountsEqual(column_name) ==
  /\ get(raw_row_data, "Panel_Channel") # <<>>
  /\ get(raw_row_data, column_name) # <<>>
  /\ LineCount(raw_row_data.Panel_Channel[1]) = LineCount(raw_row_data[column_name][1])

\* C35: once the columns of a row are processed, row_data has for none of
\* Panel_Voltage, Panel_Current and Panel_Power both the key of the column's
\* name and a key that prefixes it with a channel; where the channel cell
\* and the column's cell have as many lines the column's name is no key,
\* and where the column has a text and the channel cell has none or one of
\* another number of lines, the column's text is under the column's name and
\* no key prefixes it.
C35_SplitOrWhole ==
  pc = "row_done" =>
    \A column_name \in PanelAttributes :
      /\ ~(Unsplit(column_name) /\ Prefixed(column_name) # {})
      /\ CountsEqual(column_name) => ~Unsplit(column_name)
      /\ (get(raw_row_data, column_name) # <<>> /\ ~CountsEqual(column_name)) =>
           /\ Unsplit(column_name)
           /\ row_data[<<column_name>>] = raw_row_data[column_name]
           /\ Prefixed(column_name) = {}

\* A row has been processed of which one column is split by channel, with
\* the values stripped and the label in upper case, and another is not for
\* its number of lines.
C35_Witness ==
  /\ pc = "row_done"
  /\ ~Unsplit("Panel_Voltage")
  /\ <<"P", "V", "2", "_", "Panel_Voltage">> \in DOMAIN row_data
  /\ row_data[<<"P", "V", "2", "_", "Panel_Voltage">>] = <<<<"2", "9">>>>
  /\ Unsplit("Panel_Current")
  /\ Prefixed("Panel_Current") = {}
  /\ LineCount(raw_row_data.Panel_Current[1]) = 3

\* C36: the step that sets initial_setup_done has announced every device
\* of the cycle's poll, and a call of publish_discovery that announces
\* nothing leaves initial_setup_done false.
C36_SetupOnlyAfterAnnouncement ==
  /\ [][DiscoverySucceeds => DOMAIN all_device_data \subseteq discovered']_vars
  /\ [][(pc = "publish" /\ ~initial_setup_done /\ discovery' = "returned"
           /\ discovered' = discovered /\ ~(DOMAIN all_device_data \subseteq discovered))
          => ~initial_setup_done']_vars

C38_NoContextLeaked ==
  login_context # <<>> =>
    /\ login_context[1].context \in {"none", "held", "quit"}
    /\ login_context[1].context = "held" <=> login_context[1].raised = "none"

(***************************************************************************)
(* Properties of a read on an expired session                              *)
(***************************************************************************)
\* The device that the poller turns to, and what is known of it.
DeviceAt == microinverter_map[dev]

\* The poller reads a page of an expired session: an attempt is made and
\* its driver.get returns.
ExpiredRead ==
  /\ pc = "fetch"
  /\ DriverState = "expired"
  /\ fetch_attempts' # fetch_attempts
  /\ nav'[1].result = "true"

\* C39: a read on an expired session, whose page is not the data page or
\* shows the login form, adds no snapshot and ends the device's fetch as a
\* connection-class error after one attempt; a device whose fetch ended so
\* has no snapshot in the poll's result.
C39_NoSnapshotWhenExpired ==
  /\ [][ExpiredRead =>
          /\ fetch_outcome'[DeviceAt] = "conn_error"
          /\ fetch_attempts'[DeviceAt] = 1
          /\ all_device_data' = all_device_data
          /\ dev' = dev + 1]_vars
  /\ [](\A sn \in Serials :
          fetch_outcome[sn] = "conn_error" => sn \notin DOMAIN all_device_data)

\* The session expired after the first device gave a snapshot; the read of
\* the second device ended as a connection-class error without one.
C39_Witness ==
  /\ webdriver = "expired"
  /\ nav # <<>> /\ nav[1].result = "true"
  /\ fetch_outcome[microinverter_map[1]] = "snapshot"
  /\ fetch_outcome[microinverter_map[2]] = "conn_error"
  /\ DOMAIN all_device_data = {microinverter_map[1]}

\* C40: using_extended_interval is true only once initial_setup_done is
\* true and last_data_change_timestamp is set; while initial_setup_done is
\* false the flag is false and the sleep uses the normal interval.
C40_ExtendedOnlyAfterSetup ==
  /\ using_extended_interval =>
       (initial_setup_done /\ last_data_change_timestamp # <<>>)
  /\ ~initial_setup_done =>
       /\ ~using_extended_interval
       /\ pc = "sleep" => current_interval_to_use = normal_update_interval

\* The loop sleeps the extended interval after a cycle that began on the
\* normal one.
C40_Witness ==
  /\ pc = "sleep"
  /\ using_extended_interval
  /\ ~extended_at_start
  /\ current_interval_to_use = extended_update_interval
  /\ last_data_change_timestamp # <<>>

====
